---- MODULE Spec2Model ----
(***************************************************************************)
(* A model of go-mcp: the MCP server (server.go), its session handling     *)
(* (session.go, session/memory/manager.go), the AWS Lambda transport and   *)
(* the tool registry / invocation engine.                                  *)
(*                                                                         *)
(* Go values are records whose fields depend on their kind, Go errors are  *)
(* their Error() strings (NoErr for a nil error), Go maps are functions.   *)
(***************************************************************************)
EXTENDS Integers, Sequences, FiniteSets, TLC

VARIABLES
    Sessions,   \* SessionManager.Sessions : session id -> McpSession
    Tools,      \* McpServer.Tools         : tool name  -> McpTool
    Methods,    \* McpServer.Methods       : method name -> handler
    inflight,   \* the calls of ProcessRequest under way: caller -> position
                \* in the code and local variables
    last        \* history: the last operation, its inputs, results and effects

vars == <<Sessions, Tools, Methods, inflight, last>>

(***************************************************************************)
(* Bounds of the model.                                                    *)
(***************************************************************************)
MaxSessions == 2    \* sessions the store holds before new clients are refused
MaxIn == 2          \* inputs of a candidate callable
MaxOut == 2         \* return values of a candidate callable

(***************************************************************************)
(* error.go                                                                *)
(***************************************************************************)
ErrInvalidRequestCode == -32600
ErrMethodNotFoundCode == -32601
ErrInvalidParametersCode == -32602
ErrInternalErrorCode == -32603
ErrParseErrorCode == -32700

NoErr == "<nil>"                 \* a nil Go error
NoData == {}                     \* McpError.Data == nil
NilMcpError == [nil |-> TRUE]    \* a nil *McpError
NilResult == [nil |-> TRUE]      \* McpResponse.Results == nil

NewMcpError(code, message, data) ==
    [Code |-> code, Message |-> message, Data |-> data]

ErrNoSessionHeader ==
    NewMcpError(ErrInvalidRequestCode, "no session header", NoData)
ErrSessionAlreadyInitialized ==
    NewMcpError(ErrInvalidRequestCode, "session already initialized", NoData)
ErrSessionNotFound ==
    NewMcpError(ErrInvalidRequestCode, "session not found", NoData)
ErrSessionNotInitialized ==
    NewMcpError(ErrInvalidRequestCode, "session not initialized", NoData)
ErrInvalidMcpRequestParameters ==
    NewMcpError(ErrInvalidParametersCode, "invalid params", NoData)

NewErrUnknownMethod(method) ==
    NewMcpError(ErrMethodNotFoundCode, "unknown method", {<<"method", method>>})

NewErrInvalidArgumentType(name, expected) ==
    NewMcpError(ErrInvalidParametersCode, "invalid argument type",
                {<<"argument", name>>, <<"type", expected>>})

NewErrInternalError(message, data) ==
    NewMcpError(ErrInternalErrorCode, message, data)

(***************************************************************************)
(* session.go: the session value and the per-call context                  *)
(***************************************************************************)
McpSession(id, init) == [SessionID |-> id, Initialized |-> init]
ZeroSession == McpSession("", FALSE)

\* context.TODO(): neither a session nor a request id
EmptyContext ==
    [hasSession |-> FALSE, session |-> ZeroSession,
     hasRequestID |-> FALSE, requestID |-> ""]

GetSessionFromContext(ctx) ==
    IF ctx.hasSession
    THEN [sess |-> ctx.session, err |-> NoErr]
    ELSE [sess |-> ZeroSession, err |-> "session not found"]

SetSessionInContext(ctx, session) ==
    [ctx EXCEPT !.hasSession = TRUE, !.session = session]

GetRequestIDFromContext(ctx) ==
    IF ctx.hasRequestID
    THEN [id |-> ctx.requestID, err |-> NoErr]
    ELSE [id |-> "", err |-> "request ID not found"]

SetRequestIDInContext(ctx, requestID) ==
    [ctx EXCEPT !.hasRequestID = TRUE, !.requestID = requestID]

(***************************************************************************)
(* session/memory/manager.go: the in-memory session store                  *)
(***************************************************************************)
NoSessions == [id \in {} |-> ZeroSession]       \* NewSessionManager

\* (mutant) a fresh session value is handed out instead of the stored one
GetSessionStale(S, sessionID) ==
    IF sessionID \in DOMAIN S
    THEN [sess |-> McpSession(sessionID, FALSE), ok |-> TRUE]
    ELSE [sess |-> ZeroSession, ok |-> FALSE]

GetSession(S, sessionID) ==
    IF sessionID \in DOMAIN S
    THEN [sess |-> S[sessionID], ok |-> TRUE]
    ELSE [sess |-> ZeroSession, ok |-> FALSE]

\* (mutant) a session is created as already initialized
CreateSessionInitialized(S, uuid) ==
    IF uuid.err # NoErr
    THEN [sess |-> ZeroSession, err |-> uuid.err, Sessions |-> S]
    ELSE LET sess == McpSession(uuid.id, TRUE)
         IN  [sess |-> sess, err |-> NoErr,
              Sessions |-> (uuid.id :> sess) @@ S]

\* uuid is the outcome of uuid.NewRandom(): [id, err]
CreateSession(S, uuid) ==
    IF uuid.err # NoErr
    THEN [sess |-> ZeroSession, err |-> uuid.err, Sessions |-> S]
    ELSE LET sess == McpSession(uuid.id, FALSE)
         IN  [sess |-> sess, err |-> NoErr,
              Sessions |-> (uuid.id :> sess) @@ S]

\* (mutant) the flag is set on every stored session
SetSessionInitializedAll(S, session, init) ==
    IF session.SessionID \notin DOMAIN S
    THEN [sess |-> session, err |-> ErrSessionNotFound.Message, Sessions |-> S]
    ELSE LET newSession == [session EXCEPT !.Initialized = init]
         IN  [sess |-> newSession, err |-> NoErr,
              Sessions |-> [id \in DOMAIN S |->
                               [S[id] EXCEPT !.Initialized = init]]]

\* (mutant) the new value is returned but never stored
SetSessionInitializedFlagLost(S, session, init) ==
    IF session.SessionID \notin DOMAIN S
    THEN [sess |-> session, err |-> ErrSessionNotFound.Message, Sessions |-> S]
    ELSE [sess |-> session, err |-> NoErr, Sessions |-> S]

SetSessionInitialized(S, session, init) ==
    IF session.SessionID \notin DOMAIN S
    THEN [sess |-> session, err |-> ErrSessionNotFound.Message, Sessions |-> S]
    ELSE LET newSession == [session EXCEPT !.Initialized = init]
         IN  [sess |-> newSession, err |-> NoErr,
              Sessions |-> [S EXCEPT ![session.SessionID] = newSession]]

(***************************************************************************)
(* Go types as reflect sees them.  A type is named by its Go spelling;     *)
(* "*ctxImpl" is a concrete pointer type whose method set satisfies        *)
(* context.Context, "any" is interface{}, "McpImage" a struct.             *)
(***************************************************************************)
IntKinds ==
    {"int", "int8", "int16", "int32", "int64",
     "uint", "uint8", "uint16", "uint32", "uint64"}
FloatKinds == {"float32", "float64"}
NumberKinds == IntKinds \cup FloatKinds
InterfaceTypes == {"context.Context", "error", "any"}

\* reflect.Type.Kind()
Kind(t) ==
    CASE t \in NumberKinds \cup {"string", "bool"} -> t
      [] t \in InterfaceTypes -> "interface"
      [] t = "*ctxImpl" -> "ptr"
      [] t = "McpImage" -> "struct"
      [] OTHER -> "invalid"

\* t.Implements(reflect.TypeOf((*context.Context)(nil)).Elem())
ImplementsContext(t) == t \in {"context.Context", "*ctxImpl"}
\* t.Implements(reflect.TypeOf((*error)(nil)).Elem())
ImplementsError(t) == t = "error"

\* A Go function value: its signature and which function it is.
GoFunc(ins, outs, body) ==
    [kind |-> "func", ins |-> ins, outs |-> outs, body |-> body]
\* A Go value that is not a function.
GoScalar(k) == [kind |-> k]
\* The untyped nil: reflect.TypeOf(nil) is a nil reflect.Type.
GoNil == [kind |-> "nil"]

\* A run-time panic, told from returned errors by its text: a method call on
\* a nil interface value, an index beyond the length of a slice.
NilDereference ==
    "panic: runtime error: invalid memory address or nil pointer dereference"
IndexOutOfRange == "panic: index out of range"
IsPanic(err) == err \in {NilDereference, IndexOutOfRange}

NumIn(tool) == Len(tool.ins)
NumOut(tool) == Len(tool.outs)

(***************************************************************************)
(* Tool descriptors                                                        *)
(***************************************************************************)
McpToolParameterTypeString == "string"
McpToolParameterTypeNumber == "number"
McpToolParameterTypeBoolean == "boolean"
McpToolParameterTypeError == "error"
McpToolParameterTypeContext == "context"

McpToolOutputTypeText == "text"
McpToolOutputTypeError == "error"

McpToolParameter(name, description, type, kind) ==
    [Name |-> name, Description |-> description, Type |-> type, Kind |-> kind]

McpToolOutput(type, text) == [Type |-> type, Text |-> text]

McpTool(name, description, function, parameters, output) ==
    [Name |-> name, Description |-> description, Function |-> function,
     Parameters |-> parameters, Output |-> output]

NoTools == [n \in {} |-> McpTool("", "", GoScalar("invalid"), <<>>, <<>>)]

\* The first entry of a sequence of Go errors that is not nil.
FirstErr(errs) ==
    IF \E i \in DOMAIN errs : errs[i] # NoErr
    THEN errs[CHOOSE i \in DOMAIN errs :
                 /\ errs[i] # NoErr
                 /\ \A j \in DOMAIN errs : errs[j] # NoErr => i <= j]
    ELSE NoErr

(***************************************************************************)
(* McpServer.RegisterTool                                                  *)
(***************************************************************************)
\* (mutant) the leading context is not counted
ContextOffsetZero(tool) == 0

\* contextOffset: 1 if the first input implements context.Context
ContextOffset(tool) ==
    IF NumIn(tool) > 0 /\ ImplementsContext(tool.ins[1]) THEN 1 ELSE 0

\* (mutant) a context is accepted at any position
ParameterErrAnyPosition(tool, i) ==
    LET arg == tool.ins[i]
    IN  CASE Kind(arg) \in NumberKinds \cup {"string", "bool"} -> NoErr
          [] Kind(arg) = "interface" ->
                IF ImplementsContext(arg)
                THEN NoErr
                ELSE "unsupported function return type: interface"
          [] OTHER -> "unsupported function parameter type: " \o Kind(arg)

\* The error the parameter loop returns at input i (1-based), if any.
ParameterErr(tool, i) ==
    LET arg == tool.ins[i]
    IN  CASE Kind(arg) \in NumberKinds \cup {"string", "bool"} -> NoErr
          [] Kind(arg) = "interface" ->
                IF ImplementsContext(arg)
                THEN IF i - 1 # 0
                     THEN "context.Context must be the first parameter"
                     ELSE NoErr
                ELSE "unsupported function return type: interface"
          [] OTHER -> "unsupported function parameter type: " \o Kind(arg)

\* The semantic type a kind is given by the switch of both loops.
ScalarType(k) ==
    CASE k \in NumberKinds -> McpToolParameterTypeNumber
      [] k = "string" -> McpToolParameterTypeString
      [] k = "bool" -> McpToolParameterTypeBoolean
      [] OTHER -> ""

\* The descriptor the parameter loop appends for input i (1-based).
ParameterAt(tool, params, contextOffset, i) ==
    LET arg == tool.ins[i]
        named == contextOffset <= i - 1
        type == IF Kind(arg) = "interface"
                THEN McpToolParameterTypeContext
                ELSE ScalarType(Kind(arg))
    IN  McpToolParameter(
            IF named THEN params[i - contextOffset].Name ELSE "",
            IF named THEN params[i - contextOffset].Description ELSE "",
            type,
            IF named THEN Kind(arg) ELSE "invalid")

\* (mutant) a return value of any interface type is taken for an error
OutputErrAnyInterface(tool, i) ==
    LET out == tool.outs[i]
    IN  CASE Kind(out) \in NumberKinds \cup {"string", "bool"} -> NoErr
          [] Kind(out) = "interface" -> NoErr
          [] OTHER -> "unsupported function return type: " \o Kind(out)

\* The error the output loop returns at return value i (1-based), if any.
OutputErr(tool, i) ==
    LET out == tool.outs[i]
    IN  CASE Kind(out) \in NumberKinds \cup {"string", "bool"} -> NoErr
          [] Kind(out) = "interface" ->
                IF ImplementsError(out)
                THEN NoErr
                ELSE "unsupported function return type: interface"
          [] OTHER -> "unsupported function return type: " \o Kind(out)

\* The descriptor the output loop appends for return value i (1-based).
OutputAt(tool, i) ==
    LET out == tool.outs[i]
    IN  McpToolParameter(
            "out" \o ToString(i - 1), "",
            IF Kind(out) = "interface"
            THEN McpToolParameterTypeError
            ELSE ScalarType(Kind(out)),
            Kind(out))

\* (mutant) the tool is stored once its parameters are accepted, before its
\* return values are looked at
RegisterNewToolStoredEarly(T, name, description, tool, params) ==
    LET fail(msg) == [err |-> msg, Tools |-> T]
        contextOffset == ContextOffset(tool)
        inErr == FirstErr([i \in 1..NumIn(tool) |-> ParameterErr(tool, i)])
        outErr == FirstErr([i \in 1..NumOut(tool) |-> OutputErr(tool, i)])
        t == McpTool(name, description, tool,
                 [i \in 1..NumIn(tool) |->
                     ParameterAt(tool, params, contextOffset, i)],
                 <<>>)
    IN  IF tool = GoNil
        THEN fail(NilDereference)
        ELSE IF tool.kind # "func"
        THEN fail("tool must be a function")
        ELSE IF NumIn(tool) # Len(params) + contextOffset
        THEN fail("parameter count does not match the number of tool parameters")
        ELSE IF inErr # NoErr
        THEN fail(inErr)
        ELSE IF outErr # NoErr
        THEN [err |-> outErr, Tools |-> (name :> t) @@ T]
        ELSE [err |-> NoErr,
              Tools |-> (name :> [t EXCEPT !.Output =
                                     [i \in 1..NumOut(tool) |-> OutputAt(tool, i)]])
                        @@ T]

\* RegisterTool after the check of the name: the callable is inspected, its
\* descriptors are built and the tool is stored.
RegisterNewTool(T, name, description, tool, params) ==
    LET fail(msg) == [err |-> msg, Tools |-> T]
        contextOffset == ContextOffset(tool)
        inErr == FirstErr([i \in 1..NumIn(tool) |-> ParameterErr(tool, i)])
        outErr == FirstErr([i \in 1..NumOut(tool) |-> OutputErr(tool, i)])
        t == McpTool(name, description, tool,
                 [i \in 1..NumIn(tool) |->
                     ParameterAt(tool, params, contextOffset, i)],
                 [i \in 1..NumOut(tool) |-> OutputAt(tool, i)])
    IN  IF tool = GoNil
        THEN fail(NilDereference)          \* toolInfo.Kind() on a nil Type
        ELSE IF tool.kind # "func"
        THEN fail("tool must be a function")
        ELSE IF NumIn(tool) # Len(params) + contextOffset
        THEN fail("parameter count does not match the number of tool parameters")
        ELSE IF inErr # NoErr
        THEN fail(inErr)
        ELSE IF outErr # NoErr
        THEN fail(outErr)
        ELSE [err |-> NoErr, Tools |-> (name :> t) @@ T]

\* (mutant) a registered name is overwritten
RegisterToolOverwrite(T, name, description, tool, params) ==
    RegisterNewTool(T, name, description, tool, params)

\* RegisterTool(name, description, tool, params...): the error returned and
\* the registry afterwards.
RegisterTool(T, name, description, tool, params) ==
    IF name \in DOMAIN T
    THEN [err |-> "tool " \o name \o " already registered", Tools |-> T]
    ELSE RegisterNewTool(T, name, description, tool, params)

(***************************************************************************)
(* Go values handed to and returned by callables.                          *)
(***************************************************************************)
GoInt(k, n) == [kind |-> k, int |-> n]
GoString(x) == [kind |-> "string", str |-> x]
GoBool(b) == [kind |-> "bool", bool |-> b]
\* a value of static type error: nil, or an error with a message
GoNilError == [kind |-> "interface", isNil |-> TRUE]
GoError(msg) == [kind |-> "interface", isNil |-> FALSE, msg |-> msg]

\* fmt.Sprint of a scalar value (and of an error: its Error() string)
BoolText(b) == IF b THEN "true" ELSE "false"
Sprint(v) ==
    CASE v.kind \in IntKinds -> ToString(v.int)
      [] v.kind = "string" -> v.str
      [] v.kind = "bool" -> BoolText(v.bool)
      [] v.kind = "interface" -> IF v.isNil THEN "<nil>" ELSE v.msg
      [] OTHER -> ""

(***************************************************************************)
(* McpServer.CallTool                                                      *)
(***************************************************************************)
\* (mutant) the wrong-type error counts the parameters from 1
ArgumentErrOneBased(name, tool, params, contextOffset, i) ==
    LET p == tool.Parameters[i]
    IN  IF ~(contextOffset <= i - 1) THEN NoErr
        ELSE IF i - contextOffset > Len(params)
        THEN IndexOutOfRange
        ELSE IF params[i - contextOffset].kind # p.Kind
        THEN "tool " \o name \o " parameter " \o ToString(i)
                 \o " has wrong type: expected " \o p.Kind \o ", got "
                 \o params[i - contextOffset].kind
        ELSE NoErr

\* What the argument loop does at parameter i (1-based): nothing for the
\* context slot, a panic when params has no element for it, the wrong-type
\* error, or the argument appended.
ArgumentErr(name, tool, params, contextOffset, i) ==
    LET p == tool.Parameters[i]
    IN  IF ~(contextOffset <= i - 1) THEN NoErr
        ELSE IF i - contextOffset > Len(params)
        THEN IndexOutOfRange
        ELSE IF params[i - contextOffset].kind # p.Kind
        THEN "tool " \o name \o " parameter " \o ToString(i - 1)
                 \o " has wrong type: expected " \o p.Kind \o ", got "
                 \o params[i - contextOffset].kind
        ELSE NoErr

\* (mutant) a fresh context is passed in place of the caller's
CallArgsFreshContext(ctx, tool, params, contextOffset) ==
    [i \in 1..Len(tool.Parameters) |->
        IF contextOffset <= i - 1
        THEN params[i - contextOffset]
        ELSE [kind |-> "interface", ctx |-> EmptyContext]]

\* The reflect.Value arguments of f.Call: the context, then the positional
\* arguments in descriptor order.
CallArgs(ctx, tool, params, contextOffset) ==
    [i \in 1..Len(tool.Parameters) |->
        IF contextOffset <= i - 1
        THEN params[i - contextOffset]
        ELSE [kind |-> "interface", ctx |-> ctx]]

\* The error the output loop returns at return value i (1-based), if any.
ReturnErr(name, tool, out, i) ==
    LET o == tool.Output[i]
    IN  IF o.Kind # out[i].kind
        THEN "tool " \o name \o " return value " \o ToString(i - 1)
                 \o " has wrong type: expected " \o o.Kind \o ", got "
                 \o out[i].kind
        ELSE IF o.Type \in {McpToolParameterTypeString,
                            McpToolParameterTypeNumber,
                            McpToolParameterTypeBoolean,
                            McpToolParameterTypeError}
        THEN NoErr
        ELSE "tool " \o name \o " return value " \o ToString(i - 1)
                 \o " has unsupported type: " \o o.Type

\* (mutant) a text output is put in front of the outputs built so far
OutputStepPrepend(output, o, v) ==
    IF o.Type = McpToolParameterTypeError
    THEN IF ~v.isNil
         THEN <<McpToolOutput(McpToolOutputTypeError, Sprint(v))>>
         ELSE output
    ELSE <<McpToolOutput(McpToolOutputTypeText, Sprint(v))>> \o output

\* One iteration of the output loop on the output built so far.  The break
\* of the error case leaves the switch, not the loop: the loop goes on with
\* the next return value.
OutputStep(output, o, v) ==
    IF o.Type = McpToolParameterTypeError
    THEN IF ~v.isNil
         THEN <<McpToolOutput(McpToolOutputTypeError, Sprint(v))>>
         ELSE output
    ELSE Append(output, McpToolOutput(McpToolOutputTypeText, Sprint(v)))

RECURSIVE BuildOutput(_, _, _)
\* The output after the first n iterations of the output loop.
BuildOutput(tool, out, n) ==
    IF n = 0 THEN <<>>
    ELSE OutputStep(BuildOutput(tool, out, n - 1), tool.Output[n], out[n])

\* f.Call(args): the values function f returns.  The functions of the tests
\* compute their result; any other function returns what it chooses.
Call(f, args, choice) ==
    CASE f.body = "simpleFunc" -> <<GoInt("int", args[2].int + args[3].int)>>
      [] f.body = "errorFunc" -> <<GoInt("int", 0), GoError("this is an error")>>
      [] f.body = "contextFunc" ->
            <<GoString("Session ID: " \o GetSessionFromContext(args[1].ctx).sess.SessionID
                       \o "\nRequest ID: " \o GetRequestIDFromContext(args[1].ctx).id
                       \o "\nSum: " \o ToString(args[2].int + args[3].int)),
              GoNilError>>
      [] OTHER -> choice

\* CallTool(ctx, name, params...) where choice is what a callable without a
\* modelled body returns if it is called: the output list, the error, the
\* calls made (history) and the registry afterwards.
CallTool(T, ctx, name, params, choice) ==
    LET fail(msg, calls) ==
            [output |-> <<>>, err |-> msg, calls |-> calls, Tools |-> T]
        tool == T[name]
        contextOffset ==
            IF Len(tool.Parameters) > 0
               /\ tool.Parameters[1].Type = McpToolParameterTypeContext
            THEN 1 ELSE 0
        argErr == FirstErr([i \in 1..Len(tool.Parameters) |->
                     ArgumentErr(name, tool, params, contextOffset, i)])
        args == CallArgs(ctx, tool, params, contextOffset)
        out == Call(tool.Function, args, choice)
        call == [tool |-> name, args |-> args, returned |-> out]
        retErr == FirstErr([i \in 1..Len(tool.Output) |->
                     ReturnErr(name, tool, out, i)])
    IN  IF name \notin DOMAIN T
        THEN fail("tool " \o name \o " not found", <<>>)
        ELSE IF tool.Function.kind = "invalid"
        THEN fail("tool " \o name \o " has no function", <<>>)
        ELSE IF tool.Function.kind # "func"
        THEN fail("tool " \o name \o " is not a function", <<>>)
        ELSE IF argErr # NoErr
        THEN fail(argErr, <<>>)
        ELSE IF Len(out) # Len(tool.Output)
        THEN fail("tool " \o name \o " has wrong number of return values: expected "
                      \o ToString(Len(tool.Output)) \o ", got " \o ToString(Len(out)),
                  <<call>>)
        ELSE IF retErr # NoErr
        THEN fail(retErr, <<call>>)
        ELSE [output |-> BuildOutput(tool, out, Len(out)), err |-> NoErr,
              calls |-> <<call>>, Tools |-> T]

(***************************************************************************)
(* Wire values: what encoding/json (with UseNumber) decodes params into.   *)
(***************************************************************************)
JObject(fields) == [kind |-> "object", fields |-> fields]   \* map[string]any
JString(x) == [kind |-> "string", str |-> x]
JBool(b) == [kind |-> "bool", bool |-> b]
\* json.Number: an integer literal n, or (isInt = FALSE) a literal with a
\* fraction whose integral part is n
JNumber(isInt, n) == [kind |-> "number", isInt |-> isInt, int |-> n]
JNull == [kind |-> "null"]
NoFields == [k \in {} |-> JNull]                             \* an empty / nil map

\* The id of a message on the wire: a number literal, a string literal or
\* null, with its text.
IdNumber(text) == [kind |-> "number", text |-> text]
IdString(text) == [kind |-> "string", text |-> text]
IdNull == [kind |-> "null"]
\* The texts of the model that are JSON numbers (isValidNumber).
NumberTexts == {"-1", "0", "1", "7", "9007199254740993"}
IsValidNumber(text) == text \in NumberTexts

\* Decoding an id literal into McpRequest.ID, a json.Number: a number literal
\* is kept as its text, a string literal is taken over if its text is a
\* number and refused otherwise, null leaves the field empty.
DecodeID(lit) ==
    CASE lit.kind = "number" -> [id |-> lit.text, err |-> NoErr]
      [] lit.kind = "string" ->
            IF IsValidNumber(lit.text)
            THEN [id |-> lit.text, err |-> NoErr]
            ELSE [id |-> "", err |-> "json: invalid number literal"]
      [] OTHER -> [id |-> "", err |-> NoErr]
\* Encoding McpResponse.ID: the text as a number literal, 0 for the empty
\* text; a text that is no number is refused.
EncodeID(id) ==
    IF id = "" THEN [lit |-> IdNumber("0"), err |-> NoErr]
    ELSE IF IsValidNumber(id) THEN [lit |-> IdNumber(id), err |-> NoErr]
    ELSE [lit |-> IdNull, err |-> "json: invalid number literal"]

\* An McpRequest; as the body of a raw request its ID is the id literal.
McpRequest(id, method, params) ==
    [JsonRPC |-> "2.0", ID |-> id, Method |-> method, Params |-> params]

NilResponse == [nil |-> TRUE]                                \* a nil *McpResponse
McpResponse(id, results, error) ==
    [JsonRPC |-> "2.0", ID |-> id, Results |-> results, Error |-> error]

(***************************************************************************)
(* McpServer.CreateMcpResponse / CreateMcpErrorResponse                    *)
(***************************************************************************)
CreateMcpResponse(ctx, result) ==
    LET r == GetRequestIDFromContext(ctx)
    IN  IF r.err # NoErr
        THEN [resp |-> NilResponse, err |-> r.err]
        ELSE [resp |-> McpResponse(r.id, result, NilMcpError), err |-> NoErr]

CreateMcpErrorResponse(ctx, mcpErr) ==
    LET r == GetRequestIDFromContext(ctx)
        reqID == IF r.err # NoErr THEN "-1" ELSE r.id
    IN  [resp |-> McpResponse(reqID, NilResult, mcpErr), err |-> NoErr]

\* What a method handler hands back: (response, error), the store after it,
\* and (history) whether it built the tool list and the callables it called.
Handled(r, S, T, listed, calls) ==
    [resp |-> r.resp, err |-> r.err, Sessions |-> S, Tools |-> T,
     listed |-> listed, calls |-> calls]

(***************************************************************************)
(* McpServer.MethodInitialize                                              *)
(***************************************************************************)
\* The server's fixed settings (NewMcpServer): no logging, prompts, resources.
ServerName == "test_server"
ServerVersion == "1.0.0"
McpProtocol2025_30_26 == "2025-03-26"

Capabilities(T) == IF Cardinality(DOMAIN T) > 0 THEN {"tools"} ELSE {}

\* (mutant) initialize does not look at the session
MethodInitializeUnchecked(S, T, ctx, req) ==
    Handled(CreateMcpResponse(ctx,
                [ProtocolVersion |-> McpProtocol2025_30_26,
                 Capabilities |-> Capabilities(T),
                 ServerInfo |-> [Name |-> ServerName, Version |-> ServerVersion],
                 Instructions |-> ""]),
            S, T, FALSE, <<>>)

\* (mutant) a successful initialize marks the session as initialized
MethodInitializeSetsFlag(S, T, ctx, req) ==
    LET g == GetSessionFromContext(ctx)
        set == SetSessionInitialized(S, g.sess, TRUE)
        init == [ProtocolVersion |-> McpProtocol2025_30_26,
                 Capabilities |-> Capabilities(T),
                 ServerInfo |-> [Name |-> ServerName, Version |-> ServerVersion],
                 Instructions |-> ""]
    IN  IF g.err # NoErr
        THEN Handled([resp |-> NilResponse, err |-> g.err], S, T, FALSE, <<>>)
        ELSE IF g.sess.Initialized
        THEN Handled(CreateMcpErrorResponse(ctx, ErrSessionAlreadyInitialized),
                     S, T, FALSE, <<>>)
        ELSE Handled(CreateMcpResponse(ctx, init), set.Sessions, T, FALSE, <<>>)

MethodInitialize(S, T, ctx, req) ==
    LET g == GetSessionFromContext(ctx)
        init == [ProtocolVersion |-> McpProtocol2025_30_26,
                 Capabilities |-> Capabilities(T),
                 ServerInfo |-> [Name |-> ServerName, Version |-> ServerVersion],
                 Instructions |-> ""]
    IN  IF g.err # NoErr
        THEN Handled([resp |-> NilResponse, err |-> g.err], S, T, FALSE, <<>>)
        ELSE IF g.sess.Initialized
        THEN Handled(CreateMcpErrorResponse(ctx, ErrSessionAlreadyInitialized),
                     S, T, FALSE, <<>>)
        ELSE Handled(CreateMcpResponse(ctx, init), S, T, FALSE, <<>>)

(***************************************************************************)
(* McpServer.MethodNotificationInitialized                                 *)
(***************************************************************************)
MethodNotificationInitialized(S, T, ctx, req) ==
    LET g == GetSessionFromContext(ctx)
        set == SetSessionInitialized(S, g.sess, TRUE)
    IN  IF g.err # NoErr
        THEN Handled([resp |-> NilResponse, err |-> g.err], S, T, FALSE, <<>>)
        ELSE IF g.sess.Initialized
        THEN Handled(CreateMcpErrorResponse(ctx, ErrSessionAlreadyInitialized),
                     S, T, FALSE, <<>>)
        ELSE IF set.err # NoErr
        THEN Handled([resp |-> NilResponse, err |-> set.err],
                     set.Sessions, T, FALSE, <<>>)
        ELSE Handled(CreateMcpResponse(ctx, NilResult),
                     set.Sessions, T, FALSE, <<>>)

(***************************************************************************)
(* McpServer.ListTools and McpServer.MethodToolsList                       *)
(***************************************************************************)
\* The last parameter of the sequence of parameters that has the name.
LastNamed(shown, name) ==
    shown[CHOOSE i \in DOMAIN shown :
             /\ shown[i].Name = name
             /\ \A j \in DOMAIN shown : shown[j].Name = name => j <= i]

\* (mutant) the context parameter is shown like any other
InputSchemaWithContext(tool) ==
    LET shown == tool.Parameters
    IN  [Type |-> "object",
         Properties |->
             [name \in {shown[i].Name : i \in DOMAIN shown} |->
                 [Type |-> LastNamed(shown, name).Type,
                  Description |-> LastNamed(shown, name).Description]],
         Required |-> [i \in DOMAIN shown |-> shown[i].Name]]

\* The input schema of one tool.  Every parameter that is not the context
\* writes the entry of its name in the Properties map (a later parameter of
\* the same name overwrites it) and appends its name to Required.
InputSchema(tool) ==
    LET shown == SelectSeq(tool.Parameters,
                     LAMBDA p : p.Type # McpToolParameterTypeContext)
    IN  [Type |-> "object",
         Properties |->
             [name \in {shown[i].Name : i \in DOMAIN shown} |->
                 [Type |-> LastNamed(shown, name).Type,
                  Description |-> LastNamed(shown, name).Description]],
         Required |-> [i \in DOMAIN shown |-> shown[i].Name]]

\* (mutant) an empty registry gives an empty list
ListToolsEmptyList(T) ==
    IF \E n \in DOMAIN T : \E i \in DOMAIN T[n].Parameters :
                /\ T[n].Parameters[i].Type = McpToolParameterTypeContext
                /\ i - 1 # 0
    THEN [tools |-> {}, err |-> "context.Context must be the first parameter",
          Tools |-> T]
    ELSE [tools |-> {[Name |-> T[n].Name, Description |-> T[n].Description,
                      InputSchema |-> InputSchema(T[n])] : n \in DOMAIN T},
          err |-> NoErr, Tools |-> T]

\* (mutant) the context parameter is hidden by taking its descriptor out of
\* the stored tool
ListToolsHidesContext(T) ==
    IF Cardinality(DOMAIN T) = 0
    THEN [tools |-> {}, err |-> "no registered tools", Tools |-> T]
    ELSE IF \E n \in DOMAIN T : \E i \in DOMAIN T[n].Parameters :
                /\ T[n].Parameters[i].Type = McpToolParameterTypeContext
                /\ i - 1 # 0
    THEN [tools |-> {}, err |-> "context.Context must be the first parameter",
          Tools |-> T]
    ELSE [tools |-> {[Name |-> T[n].Name, Description |-> T[n].Description,
                      InputSchema |-> InputSchema(T[n])] : n \in DOMAIN T},
          err |-> NoErr, Tools |-> [n \in DOMAIN T |->
                        [T[n] EXCEPT !.Parameters =
                            SelectSeq(T[n].Parameters, LAMBDA q :
                                q.Type # McpToolParameterTypeContext)]]]

\* ListTools(): the descriptors, the error and the registry afterwards (the
\* loop reads the tools and writes none).  The descriptors are built in map
\* order, which Go leaves unspecified: the list is modelled as the set of its
\* elements.
ListTools(T) ==
    IF Cardinality(DOMAIN T) = 0
    THEN [tools |-> {}, err |-> "no registered tools", Tools |-> T]
    ELSE IF \E n \in DOMAIN T : \E i \in DOMAIN T[n].Parameters :
                /\ T[n].Parameters[i].Type = McpToolParameterTypeContext
                /\ i - 1 # 0
    THEN [tools |-> {}, err |-> "context.Context must be the first parameter",
          Tools |-> T]
    ELSE [tools |-> {[Name |-> T[n].Name, Description |-> T[n].Description,
                      InputSchema |-> InputSchema(T[n])] : n \in DOMAIN T},
          err |-> NoErr, Tools |-> T]

\* (mutant) tools/list does not look at the session
MethodToolsListUnchecked(S, T, ctx, req) ==
    LET l == ListTools(T)
    IN  IF l.err # NoErr
        THEN Handled([resp |-> NilResponse, err |-> l.err], S, l.Tools, TRUE, <<>>)
        ELSE Handled(CreateMcpResponse(ctx, [tools |-> l.tools]), S, l.Tools, TRUE, <<>>)

MethodToolsList(S, T, ctx, req) ==
    LET g == GetSessionFromContext(ctx)
        l == ListTools(T)
    IN  IF g.err # NoErr
        THEN Handled([resp |-> NilResponse, err |-> g.err], S, T, FALSE, <<>>)
        ELSE IF ~g.sess.Initialized
        THEN Handled(CreateMcpErrorResponse(ctx, ErrSessionNotInitialized),
                     S, T, FALSE, <<>>)
        ELSE IF l.err # NoErr
        THEN Handled([resp |-> NilResponse, err |-> l.err], S, l.Tools, TRUE, <<>>)
        ELSE Handled(CreateMcpResponse(ctx, [tools |-> l.tools]), S, l.Tools, TRUE, <<>>)

(***************************************************************************)
(* McpServer.MethodToolsCall                                               *)
(***************************************************************************)
\* The conversions int8(param), uint8(param), ... of an int64: a narrowing
\* conversion keeps the low bits.  The signed kinds of 32 and 64 bits keep
\* every value of the model, the unsigned ones every value that is not
\* negative; a negative value wraps to 2^w + n, which the integers of the
\* model do not reach: the operator is not defined there.
CastInt(k, n) ==
    CASE k = "int8" -> ((n + 128) % 256) - 128
      [] k = "uint8" -> n % 256
      [] k = "int16" -> ((n + 32768) % 65536) - 32768
      [] k = "uint16" -> n % 65536
      [] k \in {"int", "int32", "int64"} -> n
      [] k \in {"uint", "uint32", "uint64"} /\ n >= 0 -> n

\* (mutant) a missing argument is reported as one of the wrong type
ConvertErrMissingAsType(p, callArgs) ==
    LET val == callArgs[p.Name]
        wrongType == NewErrInvalidArgumentType(p.Name, p.Type)
    IN  IF p.Type = McpToolParameterTypeContext THEN NilMcpError
        ELSE IF p.Name \notin DOMAIN callArgs
        THEN wrongType
        ELSE CASE p.Kind \in IntKinds ->
                    IF val.kind # "number" THEN wrongType
                    ELSE IF ~val.isInt THEN wrongType
                    ELSE NilMcpError
               [] p.Kind \in FloatKinds ->
                    IF val.kind # "number" THEN wrongType ELSE NilMcpError
               [] p.Kind = "string" ->
                    IF val.kind # "string" THEN wrongType ELSE NilMcpError
               [] p.Kind = "bool" ->
                    IF val.kind # "bool" THEN wrongType ELSE NilMcpError
               [] OTHER -> wrongType

\* The error response of the conversion loop for parameter p, NilMcpError if
\* the loop appends an argument (or skips the context parameter).
ConvertErr(p, callArgs) ==
    LET val == callArgs[p.Name]
        wrongType == NewErrInvalidArgumentType(p.Name, p.Type)
    IN  IF p.Type = McpToolParameterTypeContext THEN NilMcpError
        ELSE IF p.Name \notin DOMAIN callArgs
        THEN NewMcpError(ErrInvalidParametersCode, "missing arguments",
                         {<<"argument", p.Name>>})
        ELSE CASE p.Kind \in IntKinds ->
                    IF val.kind # "number" THEN wrongType
                    ELSE IF ~val.isInt THEN wrongType
                    ELSE NilMcpError
               [] p.Kind \in FloatKinds ->
                    IF val.kind # "number" THEN wrongType ELSE NilMcpError
               [] p.Kind = "string" ->
                    IF val.kind # "string" THEN wrongType ELSE NilMcpError
               [] p.Kind = "bool" ->
                    IF val.kind # "bool" THEN wrongType ELSE NilMcpError
               [] OTHER -> wrongType

\* The argument the conversion loop appends for a parameter it accepts.
ConvertArg(p, callArgs) ==
    LET val == callArgs[p.Name]
    IN  CASE p.Kind \in IntKinds -> GoInt(p.Kind, CastInt(p.Kind, val.int))
          [] p.Kind \in FloatKinds ->
                [kind |-> p.Kind, isInt |-> val.isInt, int |-> val.int]
          [] p.Kind = "string" -> GoString(val.str)
          [] OTHER -> GoBool(val.bool)

\* The first entry of a sequence of *McpError that is not nil.
FirstMcpError(errs) ==
    IF \E i \in DOMAIN errs : errs[i] # NilMcpError
    THEN errs[CHOOSE i \in DOMAIN errs :
                 /\ errs[i] # NilMcpError
                 /\ \A j \in DOMAIN errs : errs[j] # NilMcpError => i <= j]
    ELSE NilMcpError

\* (mutant) an error output is passed on like any other output
ToolCallResultNeverError(output) == [content |-> output, isError |-> FALSE]

\* The result of tools/call for the outputs of the engine: the first output of
\* type error as the only content, a text entry, with isError set; all outputs
\* if none is of type error.
ToolCallResult(output) ==
    LET isError == \E i \in DOMAIN output :
                       output[i].Type = McpToolOutputTypeError
        firstError == output[CHOOSE i \in DOMAIN output :
                         /\ output[i].Type = McpToolOutputTypeError
                         /\ \A j \in DOMAIN output :
                               output[j].Type = McpToolOutputTypeError => i <= j]
    IN  IF isError
        THEN [content |-> <<McpToolOutput(McpToolOutputTypeText, firstError.Text)>>,
              isError |-> TRUE]
        ELSE [content |-> output, isError |-> FALSE]

\* (mutant) the session is not asked whether it is initialized
MethodToolsCallUnchecked(S, T, ctx, req, out) ==
    LET g == GetSessionFromContext(ctx)
        error(e) == Handled(CreateMcpErrorResponse(ctx, e), S, T, FALSE, <<>>)
        params == req.Params.fields
        toolName == params["name"].str
        tool == T[toolName]
        callArgs == IF "arguments" \in DOMAIN params
                    THEN params["arguments"].fields
                    ELSE NoFields
        convErr == FirstMcpError([i \in DOMAIN tool.Parameters |->
                       ConvertErr(tool.Parameters[i], callArgs)])
        passed == SelectSeq(tool.Parameters,
                      LAMBDA p : p.Type # McpToolParameterTypeContext)
        toolArgs == [i \in DOMAIN passed |-> ConvertArg(passed[i], callArgs)]
        c == CallTool(T, ctx, toolName, toolArgs, out)
    IN  IF g.err # NoErr
        THEN Handled([resp |-> NilResponse, err |-> g.err], S, T, FALSE, <<>>)
        ELSE IF req.Params.kind # "object"
        THEN error(ErrInvalidMcpRequestParameters)
        ELSE IF "name" \notin DOMAIN params
        THEN error(NewMcpError(ErrInvalidParametersCode, "missing tool name", NoData))
        ELSE IF params["name"].kind # "string"
        THEN error(NewMcpError(ErrInvalidParametersCode, "invalid tool name", NoData))
        ELSE IF toolName \notin DOMAIN T
        THEN error(NewMcpError(ErrMethodNotFoundCode, "tool not found", NoData))
        ELSE IF "arguments" \in DOMAIN params
                /\ params["arguments"].kind # "object"
        THEN error(NewMcpError(ErrInvalidRequestCode, "arguments is not object", NoData))
        ELSE IF convErr # NilMcpError
        THEN error(convErr)
        ELSE IF c.err # NoErr
        THEN Handled([resp |-> NilResponse, err |-> "error calling tool"],
                     S, c.Tools, FALSE, c.calls)
        ELSE Handled(CreateMcpResponse(ctx, ToolCallResult(c.output)),
                     S, c.Tools, FALSE, c.calls)

\* out is what the tool's callable returns if it is called.
MethodToolsCall(S, T, ctx, req, out) ==
    LET g == GetSessionFromContext(ctx)
        error(e) == Handled(CreateMcpErrorResponse(ctx, e), S, T, FALSE, <<>>)
        params == req.Params.fields
        toolName == params["name"].str
        tool == T[toolName]
        callArgs == IF "arguments" \in DOMAIN params
                    THEN params["arguments"].fields
                    ELSE NoFields
        convErr == FirstMcpError([i \in DOMAIN tool.Parameters |->
                       ConvertErr(tool.Parameters[i], callArgs)])
        passed == SelectSeq(tool.Parameters,
                      LAMBDA p : p.Type # McpToolParameterTypeContext)
        toolArgs == [i \in DOMAIN passed |-> ConvertArg(passed[i], callArgs)]
        c == CallTool(T, ctx, toolName, toolArgs, out)
    IN  IF g.err # NoErr
        THEN Handled([resp |-> NilResponse, err |-> g.err], S, T, FALSE, <<>>)
        ELSE IF ~g.sess.Initialized
        THEN error(ErrSessionNotInitialized)
        ELSE IF req.Params.kind # "object"
        THEN error(ErrInvalidMcpRequestParameters)
        ELSE IF "name" \notin DOMAIN params
        THEN error(NewMcpError(ErrInvalidParametersCode, "missing tool name", NoData))
        ELSE IF params["name"].kind # "string"
        THEN error(NewMcpError(ErrInvalidParametersCode, "invalid tool name", NoData))
        ELSE IF toolName \notin DOMAIN T
        THEN error(NewMcpError(ErrMethodNotFoundCode, "tool not found", NoData))
        ELSE IF "arguments" \in DOMAIN params
                /\ params["arguments"].kind # "object"
        THEN error(NewMcpError(ErrInvalidRequestCode, "arguments is not object", NoData))
        ELSE IF convErr # NilMcpError
        THEN error(convErr)
        ELSE IF c.err # NoErr
        THEN Handled([resp |-> NilResponse, err |-> "error calling tool"],
                     S, c.Tools, FALSE, c.calls)
        ELSE Handled(CreateMcpResponse(ctx, ToolCallResult(c.output)),
                     S, c.Tools, FALSE, c.calls)

(***************************************************************************)
(* transport/awslambda: TransportHandler                                   *)
(***************************************************************************)
\* A raw request: an events.APIGatewayProxyRequest (kind "aws") with its
\* headers and a body that decodes into req or does not, or something else.
RawRequest(kind, headers, decodes, req) ==
    [kind |-> kind, Headers |-> headers, decodes |-> decodes, req |-> req]

NoHeaders == [h \in {} |-> ""]

TransportGetSessionID(ctx, request) ==
    IF request.kind = "aws"
    THEN IF "Mcp-Session-Id" \in DOMAIN request.Headers
         THEN [sid |-> request.Headers["Mcp-Session-Id"], err |-> NoErr]
         ELSE IF "mcp-session-id" \in DOMAIN request.Headers
         THEN [sid |-> request.Headers["mcp-session-id"], err |-> NoErr]
         ELSE [sid |-> "", err |-> ErrNoSessionHeader.Message]
    ELSE [sid |-> "", err |-> "invalid request type"]

TransportProcessRequest(ctx, request) ==
    IF request.kind = "aws"
    THEN IF request.decodes /\ DecodeID(request.req.ID).err = NoErr
         THEN [req |-> [request.req EXCEPT !.ID = DecodeID(request.req.ID).id],
               err |-> NoErr]
         ELSE [req |-> NilResponse, err |-> "cannot decode request"]
    ELSE [req |-> NilResponse, err |-> "invalid request type"]

\* json.Marshal of an McpResponse: result and error are omitempty.
MarshalResponse(response) ==
    LET base == [jsonrpc |-> response.JsonRPC, id |-> EncodeID(response.ID).lit]
        withResult == IF response.Results # NilResult
                      THEN ("result" :> response.Results) @@ base
                      ELSE base
    IN  IF response.Error # NilMcpError
        THEN ("error" :> response.Error) @@ withResult
        ELSE withResult

NoRawResponse == [nil |-> TRUE]

TransportProcessResponse(ctx, response) ==
    LET g == GetSessionFromContext(ctx)
    IN  IF g.err # NoErr
        THEN [out |-> NoRawResponse, err |-> g.err]
        ELSE IF EncodeID(response.ID).err # NoErr
        THEN [out |-> NoRawResponse, err |-> "cannot encode response"]
        ELSE [out |-> [StatusCode |-> 200,
                       Headers |-> IF g.sess.SessionID # ""
                                   THEN [h \in {"Content-Type", "Mcp-Session-Id"} |->
                                            IF h = "Content-Type"
                                            THEN "application/json"
                                            ELSE g.sess.SessionID]
                                   ELSE [h \in {"Content-Type"} |-> "application/json"],
                       Body |-> MarshalResponse(response)],
              err |-> NoErr]

(***************************************************************************)
(* McpServer.ProcessRequest                                                *)
(***************************************************************************)
\* The method table maps a method name to its handler; a handler is named
\* by its function.
NoMethods == [m \in {} |-> ""]

\* (mutant) the handler of a registered name is replaced
RegisterMethodReplaces(M, name, method) ==
    [err |-> NoErr, Methods |-> (name :> method) @@ M]

\* RegisterMethod(name, method): the error returned and the table afterwards.
RegisterMethod(M, name, method) ==
    IF name \in DOMAIN M
    THEN [err |-> "method " \o name \o " already registered", Methods |-> M]
    ELSE [err |-> NoErr, Methods |-> (name :> method) @@ M]

\* The table NewMcpServer builds by registering the default methods.
DefaultMethods ==
    RegisterMethod(
        RegisterMethod(
            RegisterMethod(
                RegisterMethod(NoMethods, "initialize", "MethodInitialize").Methods,
                "notifications/initialized", "MethodNotificationInitialized").Methods,
            "tools/list", "MethodToolsList").Methods,
        "tools/call", "MethodToolsCall").Methods

\* a handler an application registers: it answers every request with a result
PingHandler(S, T, ctx, req) ==
    Handled(CreateMcpResponse(ctx, [pong |-> TRUE]), S, T, FALSE, <<>>)

\* s.Methods[mcpReq.Method](ctx, mcpReq)
CallMethod(S, T, M, ctx, mcpReq, out) ==
    CASE M[mcpReq.Method] = "MethodInitialize" -> MethodInitialize(S, T, ctx, mcpReq)
      [] M[mcpReq.Method] = "MethodNotificationInitialized" ->
            MethodNotificationInitialized(S, T, ctx, mcpReq)
      [] M[mcpReq.Method] = "MethodToolsList" -> MethodToolsList(S, T, ctx, mcpReq)
      [] M[mcpReq.Method] = "MethodToolsCall" ->
            MethodToolsCall(S, T, ctx, mcpReq, out)
      [] OTHER -> PingHandler(S, T, ctx, mcpReq)

\* What ProcessRequest returns to its caller (out, err) for the envelope resp
\* handed to the transport under context ctx, with the store, the registry
\* and the method table afterwards and,
\* as history, the envelope, the context of the call, the handler run,
\* whether CreateSession was called, whether the tool list was built and the
\* callables called.
Deliver(ctx, resp, S, T, M, method, created, listed, calls) ==
    LET d == TransportProcessResponse(ctx, resp)
    IN  [out |-> d.out, err |-> d.err, Sessions |-> S, Tools |-> T,
         Methods |-> M, resp |-> resp,
         ctx |-> ctx, method |-> method, created |-> created,
         listed |-> listed, calls |-> calls]

\* The first part of ProcessRequest, up to the look-up of the method: the
\* request is converted, its session created or fetched from store S and put
\* in the context.  uuid is the outcome of uuid.NewRandom().  Either the
\* request is answered here (done, with the result), or it goes on to its
\* handler with the context, the converted request and the store so far.
Route(S, T, M, req, uuid) ==
    LET ctx0 == EmptyContext
        errorResp(ctx, e) == CreateMcpErrorResponse(ctx, e).resp
        answered(res) == [done |-> TRUE, result |-> res]
        t == TransportProcessRequest(ctx0, req)
        mcpReq == t.req
        ctx1 == SetRequestIDInContext(ctx0, mcpReq.ID)
        g == TransportGetSessionID(ctx1, req)
        new == CreateSession(S, uuid)
        found == GetSession(S, g.sid)
        created == g.sid = ""
        S1 == IF created THEN new.Sessions ELSE S
        mcpSession == IF created THEN new.sess ELSE found.sess
        ctx2 == SetSessionInContext(ctx1, mcpSession)
    IN  IF t.err # NoErr
        THEN answered(Deliver(ctx0,
                 errorResp(ctx0, NewMcpError(ErrInvalidRequestCode,
                                             "invalid request", NoData)),
                 S, T, M, "", FALSE, FALSE, <<>>))
        ELSE IF g.err # NoErr /\ g.err # ErrNoSessionHeader.Message
        THEN answered(Deliver(ctx1,
                 errorResp(ctx1, NewErrInternalError("cannot get session", NoData)),
                 S, T, M, "", FALSE, FALSE, <<>>))
        ELSE IF created /\ new.err # NoErr
        THEN answered(Deliver(ctx1,
                 errorResp(ctx1, NewErrInternalError("cannot create session", NoData)),
                 new.Sessions, T, M, "", TRUE, FALSE, <<>>))
        ELSE IF ~created /\ ~found.ok
        THEN answered(Deliver(ctx1,
                 errorResp(ctx1, NewErrInternalError("cannot get session", NoData)),
                 S, T, M, "", FALSE, FALSE, <<>>))
        ELSE IF mcpReq.Method \notin DOMAIN M
        THEN answered(Deliver(ctx2, errorResp(ctx2, NewErrUnknownMethod(mcpReq.Method)),
                 S1, T, M, "", created, FALSE, <<>>))
        ELSE [done |-> FALSE, ctx |-> ctx2, mcpReq |-> mcpReq,
              Sessions |-> S1, Tools |-> T, Methods |-> M, created |-> created]

\* The second part of ProcessRequest: the handler of the method is run on
\* store S as it is now, under the context the first part built, and its
\* response, or the internal error made of its error, is delivered.
Dispatch(S, T, M, routed, out) ==
    LET h == CallMethod(S, T, M, routed.ctx, routed.mcpReq, out)
    IN  IF h.err # NoErr
        THEN Deliver(routed.ctx,
                 CreateMcpErrorResponse(routed.ctx,
                     NewErrInternalError(h.err, NoData)).resp,
                 h.Sessions, h.Tools, M, routed.mcpReq.Method, routed.created,
                 h.listed, h.calls)
        ELSE Deliver(routed.ctx, h.resp, h.Sessions, h.Tools, M,
                 routed.mcpReq.Method, routed.created, h.listed, h.calls)

\* ProcessRequest(ctx, req) on store S, registry T and method table M.  env holds what the
\* environment decides during the call: env.uuid, the outcome of
\* uuid.NewRandom(), and env.out, the values the tool's callable returns.
ProcessRequest(S, T, M, req, env) ==
    LET routed == Route(S, T, M, req, env.uuid)
    IN  IF routed.done
        THEN routed.result
        ELSE Dispatch(routed.Sessions, routed.Tools, routed.Methods, routed,
                      env.out)

(***************************************************************************)
(* The inputs the model draws from.                                        *)
(***************************************************************************)
\* All sequences over S of length at most n.
SeqsUpTo(S, n) == UNION {[1..k -> S] : k \in 0..n}

\* Parameter specs p0, p1, ... as given to RegisterTool.
ParamSpecs(k) ==
    [i \in 1..k |-> McpToolParameter("p" \o ToString(i - 1),
                                     "parameter " \o ToString(i - 1), "", "invalid")]

\* The functions of server_test.go and their registrations.
simpleFunc == GoFunc(<<"context.Context", "int", "int">>, <<"int">>, "simpleFunc")
errorFunc == GoFunc(<<"context.Context", "int", "int">>, <<"int", "error">>, "errorFunc")
contextFunc ==
    GoFunc(<<"context.Context", "int", "int">>, <<"string", "error">>, "contextFunc")
ABParams ==
    <<McpToolParameter("a", "First integer", "", "invalid"),
      McpToolParameter("b", "Second integer", "", "invalid")>>
Registration(name, description, tool, params) ==
    [name |-> name, description |-> description, tool |-> tool, params |-> params]
TestRegistrations ==
    {Registration("simple_func", "Simple function that adds two integers",
                  simpleFunc, ABParams),
     Registration("error_func", "Function that returns an error",
                  errorFunc, ABParams)}

\* Session ids: uuid.NewRandom() yields an id no session has yet (a collision
\* of random UUIDs is left out); the ids are numbered in order of creation.
SessionIDs == {ToString(i) : i \in 1..MaxSessions}
NewUuid(S) == ToString(Cardinality(DOMAIN S) + 1)
UuidOutcomes(S) ==
    {[id |-> NewUuid(S), err |-> NoErr], [id |-> "", err |-> "uuid: read failed"]}
\* uuid.NewRandom() is only called for a request without a session id.
UuidOutcomesFor(S, req) ==
    IF TransportGetSessionID(EmptyContext, req).sid = ""
    THEN UuidOutcomes(S)
    ELSE {[id |-> NewUuid(S), err |-> NoErr]}

\* Requests: with or without a session header, any method, a decodable body
\* or not.
RequestIDs ==
    {IdNumber("1"), IdNumber("9007199254740993"), IdString("7"), IdString("abc"),
     IdNull}
HeaderSets ==
    {NoHeaders}
    \cup {[h \in {"Mcp-Session-Id"} |-> sid] : sid \in SessionIDs \cup {"", "stale"}}
    \cup {[h \in {"mcp-session-id"} |-> "1"]}
AB(a, b) == JObject([a |-> a, b |-> b])
CallParams ==
    {JObject([name |-> JString("simple_func"), arguments |-> AB(JNumber(TRUE, 2), JNumber(TRUE, 3))]),
     JObject([name |-> JString("error_func"), arguments |-> AB(JNumber(TRUE, 1), JNumber(TRUE, 2))]),
     JObject([name |-> JString("simple_func"), arguments |-> JObject([a |-> JNumber(TRUE, 2)])]),
     JObject([name |-> JString("no_such_tool")]),
     JString("simple_func")}
\* initialize is requested under every id, the notification under the ids
\* that decode differently, the other methods under one id, tools/call with
\* every params.
McpRequests ==
    {McpRequest(id, "initialize", JNull) : id \in RequestIDs}
    \cup {McpRequest(id, "notifications/initialized", JNull) :
              id \in {IdNumber("1"), IdNull}}
    \cup {McpRequest(IdNumber("1"), m, JNull) : m \in {"tools/list", "ping"}}
    \cup {McpRequest(IdNumber("1"), "tools/call", p) : p \in CallParams}
RawRequests ==
    {RawRequest("aws", h, TRUE, r) : h \in HeaderSets, r \in McpRequests}
    \cup {RawRequest("aws", h, FALSE, NilResponse) : h \in HeaderSets}
    \cup {RawRequest("other", NoHeaders, FALSE, NilResponse)}

(***************************************************************************)
(* The server serving requests: Spec                                       *)
(***************************************************************************)
NoOp == [op |-> "none"]

\* no call of ProcessRequest is under way
NoCalls == [c \in {} |-> [pc |-> "routing"]]

Init ==
    /\ Sessions = NoSessions
    /\ Tools = NoTools
    /\ Methods = DefaultMethods
    /\ inflight = NoCalls
    /\ last = NoOp

\* The set-up code registers one of the tools of the tests.
RegisterTestTool ==
    \E reg \in TestRegistrations :
        \E r \in {RegisterTool(Tools, reg.name, reg.description, reg.tool, reg.params)} :
            /\ Tools' = r.Tools
            /\ last' = [op |-> "RegisterTool", reg |-> reg, before |-> Tools,
                        err |-> r.err]
            /\ UNCHANGED <<Sessions, Methods, inflight>>

\* A client's request is processed.  (The store is bounded: no request that
\* would create a session is taken once MaxSessions exist.)
Serve ==
    \E req \in RawRequests : \E uuid \in UuidOutcomesFor(Sessions, req) :
        \E r \in {ProcessRequest(Sessions, Tools, Methods, req, [uuid |-> uuid, out |-> <<>>])} :
            /\ r.created => Cardinality(DOMAIN Sessions) < MaxSessions
            /\ Sessions' = r.Sessions
            /\ last' = [op |-> "ProcessRequest", req |-> req, uuid |-> uuid,
                        before |-> Sessions, out |-> r.out, err |-> r.err, resp |-> r.resp,
                        ctx |-> r.ctx, method |-> r.method,
                        created |-> r.created, listed |-> r.listed,
                        calls |-> r.calls]
            /\ Tools' = r.Tools
            /\ Methods' = r.Methods
            /\ UNCHANGED inflight

Next == RegisterTestTool \/ Serve

Spec == Init /\ [][Next]_vars

(***************************************************************************)
(* Registration on its own: SpecReg.  Callables of every signature over    *)
(* InTypes with at most MaxIn inputs, and values that are no functions,    *)
(* are registered under one name with 0..MaxIn parameter specs; the        *)
(* function of the tests is registered under its own name.                 *)
(***************************************************************************)
InTypes == {"int", "context.Context", "any", "*ctxImpl"}
scalarTypeFunc == GoFunc(<<"string", "float64", "bool">>, <<"string", "error">>, "opaque")
ABCParams ==
    <<McpToolParameter("a", "", "string", "invalid"),
      McpToolParameter("b", "", "number", "invalid"),
      McpToolParameter("c", "", "boolean", "invalid")>>
RegCandidates ==
    {GoFunc(ins, <<"int">>, "opaque") : ins \in SeqsUpTo(InTypes, MaxIn)}
    \cup {GoScalar("int"), GoScalar("struct"), GoNil}
\* a callable registered with two parameter specs of one name
sameNameFunc == GoFunc(<<"int", "string">>, <<"int">>, "opaque")
SameNameParams ==
    <<McpToolParameter("a", "first", "", "invalid"),
      McpToolParameter("a", "second", "", "invalid")>>
\* the function of the tests that takes an image and returns it
imageFunc ==
    GoFunc(<<"context.Context", "McpImage">>, <<"McpImage", "error">>, "imageFunc")
ImgParams == <<McpToolParameter("img", "Image", "", "invalid")>>
\* a callable whose inputs are supported and whose second return value is not
anyOutFunc == GoFunc(<<"int">>, <<"int", "any">>, "opaque")
\* a callable of the scalar kinds the functions of the tests do not use
typedOutFunc == GoFunc(<<"uint8", "float32">>, <<"bool", "float64", "error">>, "opaque")
RegInputs ==
    {Registration("tool", d, f, ParamSpecs(k)) :
        d \in {"a tool"}, f \in RegCandidates, k \in 0..MaxIn}
    \cup {Registration("scalar_type_func", "", scalarTypeFunc, ABCParams),
          Registration("tool", "a tool", sameNameFunc, SameNameParams),
          Registration("tool", "Function that accepts an image and returns it",
                       imageFunc, ImgParams),
          Registration("tool", "a tool", anyOutFunc, ParamSpecs(1)),
          Registration("tool", "a tool", typedOutFunc, ParamSpecs(2))}

Register ==
    \E reg \in RegInputs :
        \E r \in {RegisterTool(Tools, reg.name, reg.description, reg.tool, reg.params)} :
            /\ Tools' = r.Tools
            /\ last' = [op |-> "RegisterTool", reg |-> reg, before |-> Tools,
                        err |-> r.err]
            /\ UNCHANGED <<Sessions, Methods, inflight>>

\* ListTools() on the registry as it is.
List ==
    \E l \in {ListTools(Tools)} :
        /\ last' = [op |-> "ListTools", tools |-> l.tools, err |-> l.err,
                    before |-> Tools]
        /\ Tools' = l.Tools
        /\ UNCHANGED <<Sessions, Methods, inflight>>

NextReg == Register \/ List

SpecReg == Init /\ [][NextReg]_vars

(***************************************************************************)
(* Invocation on its own: SpecCall.  Callables of every return signature   *)
(* over OutTypes with at most MaxOut return values are registered and      *)
(* called; a callable returns any values of its declared types.            *)
(***************************************************************************)
OutTypes == {"int", "string", "bool", "error", "any"}

\* The values a callable may return in a slot of type t.
ValuesOf(t) ==
    CASE t = "int" -> {GoInt("int", -7), GoInt("int", 12)}
      [] t = "string" -> {GoString("ok")}
      [] t = "bool" -> {GoBool(FALSE)}
      [] t = "error" -> {GoNilError, GoError("boom")}
      [] OTHER -> {}
Returns(f) ==
    {out \in [1..NumOut(f) -> UNION {ValuesOf(t) : t \in OutTypes}] :
        \A i \in 1..NumOut(f) : out[i] \in ValuesOf(f.outs[i])}

\* a callable whose error slot stands between two scalar return values
errorBetweenFunc ==
    GoFunc(<<"context.Context", "int">>, <<"int", "error", "string">>, "opaque")
CallCandidates ==
    {GoFunc(<<"context.Context", "int">>, outs, "opaque") :
        outs \in SeqsUpTo(OutTypes, MaxOut)}
    \cup {errorBetweenFunc}
CallContext ==
    SetRequestIDInContext(
        SetSessionInContext(EmptyContext, McpSession("test-session", TRUE)),
        "test-request")
CallInputs ==
    {<<GoInt("int", 1)>>, <<GoString("1")>>,
     <<GoInt("int", 1), GoInt("int", 2)>>, <<GoInt("int", 1), GoString("x")>>,
     <<GoString("x"), GoInt("int", 1)>>}
\* The callables are registered under one name: the candidates, the function
\* of the tests that reads its context, and one without a context.
CallRegistrations ==
    {Registration("tool", "a tool", f, ParamSpecs(1)) : f \in CallCandidates}
    \cup {Registration("tool", "Function that uses context to access session ID and request ID",
                       contextFunc, ABParams),
          Registration("tool", "a tool", sameNameFunc, ParamSpecs(2))}

RegisterCallable ==
    \E reg \in CallRegistrations :
        \E r \in {RegisterTool(Tools, reg.name, reg.description, reg.tool, reg.params)} :
            /\ Tools' = r.Tools
            /\ last' = [op |-> "RegisterTool", reg |-> reg,
                        before |-> Tools, err |-> r.err]
            /\ UNCHANGED <<Sessions, Methods, inflight>>

Invoke ==
    \E name \in {"tool", "no_such_tool"} : \E params \in CallInputs :
        \E choice \in IF name \in DOMAIN Tools
                      THEN Returns(Tools[name].Function) ELSE {<<>>} :
            \E r \in {CallTool(Tools, CallContext, name, params, choice)} :
                /\ last' = [op |-> "CallTool", name |-> name, params |-> params,
                            returned |-> IF r.calls = <<>> THEN choice
                                         ELSE r.calls[1].returned,
                            output |-> r.output,
                            err |-> r.err, calls |-> r.calls]
                /\ Tools' = r.Tools
                /\ UNCHANGED <<Sessions, Methods, inflight>>

NextCall == RegisterCallable \/ Invoke

SpecCall == Init /\ [][NextCall]_vars

(***************************************************************************)
(* tools/call on its own: SpecArgs.  The handler is run as the tests run    *)
(* the engine, on a context that holds a session and a request id, with    *)
(* params of every shape and arguments present or not, in and out of the   *)
(* range of their parameter, of the right wire type or not.                *)
(***************************************************************************)
narrowFunc ==
    GoFunc(<<"context.Context", "int8", "uint8">>, <<"int", "error">>, "opaque")
ArgRegistrations ==
    {Registration("narrow_func", "Function of two small integers",
                  narrowFunc, ABParams),
     Registration("error_between_func", "", errorBetweenFunc, ParamSpecs(1))}

\* The literals 2, 300, -1 and 2.5, and a string.
ArgValues ==
    {JNumber(TRUE, 2), JNumber(TRUE, 300), JNumber(TRUE, -1), JNumber(FALSE, 2),
     JString("x")}
\* The objects that give a value to some of the keys.
ArgObjects(keys) ==
    {JObject(f) : f \in UNION {[D -> ArgValues] : D \in SUBSET keys}}
ArgParams ==
    {JObject([name |-> JString("narrow_func"), arguments |-> o]) :
        o \in ArgObjects({"a", "b"})}
    \cup {JObject([name |-> JString("error_between_func"), arguments |-> o]) :
        o \in ArgObjects({"p0"})}
    \cup {JObject([name |-> JString(n)]) :
        n \in {"narrow_func", "error_between_func", "no_such_tool"}}
    \cup {JObject([name |-> JString(n), arguments |-> JString("a")]) :
        n \in {"narrow_func", "no_such_tool"}}
    \cup {JObject([arguments |-> JObject(NoFields)]),
          JObject([name |-> JNumber(TRUE, 2), arguments |-> JObject(NoFields)]),
          JString("narrow_func"), JNull}
ArgContexts ==
    {SetRequestIDInContext(SetSessionInContext(EmptyContext,
         McpSession("test-session", init)), "1") :
            init \in BOOLEAN}
\* the tool a tools/call request names, if it names a registered one
NamedTool(T, params) ==
    IF /\ params.kind = "object"
       /\ "name" \in DOMAIN params.fields
       /\ params.fields["name"].kind = "string"
       /\ params.fields["name"].str \in DOMAIN T
    THEN {T[params.fields["name"].str]}
    ELSE {}

RegisterArgTool ==
    \E reg \in ArgRegistrations :
        \E r \in {RegisterTool(Tools, reg.name, reg.description, reg.tool, reg.params)} :
            /\ Tools' = r.Tools
            /\ last' = [op |-> "RegisterTool", reg |-> reg, before |-> Tools,
                        err |-> r.err]
            /\ UNCHANGED <<Sessions, Methods, inflight>>

ToolsCall ==
    \E ctx \in ArgContexts : \E params \in ArgParams :
        \E choice \in IF NamedTool(Tools, params) = {} THEN {<<>>}
                      ELSE UNION {Returns(t.Function) :
                                     t \in NamedTool(Tools, params)} :
            \E r \in {MethodToolsCall(Sessions, Tools, ctx,
                           McpRequest("1", "tools/call", params),
                           choice)} :
                /\ last' = [op |-> "MethodToolsCall", ctx |-> ctx,
                            params |-> params, resp |-> r.resp, err |-> r.err,
                            calls |-> r.calls]
                /\ Tools' = r.Tools
                /\ UNCHANGED <<Sessions, Methods, inflight>>

NextArgs == RegisterArgTool \/ ToolsCall

SpecArgs == Init /\ [][NextArgs]_vars

(***************************************************************************)
(* Requests one after the other: SpecSeq.  As Spec, with the requests of   *)
(* the handshake and of the tools, and the operation before the last one   *)
(* kept as history (last.prev).                                            *)
(***************************************************************************)
SeqHeaderSets ==
    {NoHeaders}
    \cup {[h \in {"Mcp-Session-Id"} |-> sid] : sid \in SessionIDs \cup {"stale"}}
SeqMcpRequests ==
    {McpRequest(IdNumber("1"), m, JNull) :
        m \in {"initialize", "notifications/initialized", "tools/list"}}
    \cup {McpRequest(IdNumber("1"), "tools/call",
              JObject([name |-> JString("simple_func"),
                       arguments |-> AB(JNumber(TRUE, 2), JNumber(TRUE, 3))]))}
SeqRequests ==
    {RawRequest("aws", h, TRUE, r) : h \in SeqHeaderSets, r \in SeqMcpRequests}

\* An operation as history: without the history it holds itself.
Forget(l) == [f \in DOMAIN l \ {"prev"} |-> l[f]]

RegisterTestToolInSequence ==
    \E reg \in TestRegistrations :
        \E r \in {RegisterTool(Tools, reg.name, reg.description, reg.tool, reg.params)} :
            /\ Tools' = r.Tools
            /\ last' = [op |-> "RegisterTool", reg |-> reg, before |-> Tools,
                        err |-> r.err, prev |-> Forget(last)]
            /\ UNCHANGED <<Sessions, Methods, inflight>>

ServeInSequence ==
    \E req \in SeqRequests : \E uuid \in UuidOutcomesFor(Sessions, req) :
        \E r \in {ProcessRequest(Sessions, Tools, Methods, req, [uuid |-> uuid, out |-> <<>>])} :
            /\ r.created => Cardinality(DOMAIN Sessions) < MaxSessions
            /\ Sessions' = r.Sessions
            /\ last' = [op |-> "ProcessRequest", req |-> req, uuid |-> uuid,
                        before |-> Sessions, out |-> r.out,
                        err |-> r.err, resp |-> r.resp,
                        ctx |-> r.ctx, method |-> r.method,
                        created |-> r.created, listed |-> r.listed,
                        calls |-> r.calls, prev |-> Forget(last)]
            /\ Tools' = r.Tools
            /\ Methods' = r.Methods
            /\ UNCHANGED inflight

NextSeq == RegisterTestToolInSequence \/ ServeInSequence

SpecSeq == Init /\ [][NextSeq]_vars

(***************************************************************************)
(* Overlapping requests: SpecConc.  Two callers run ProcessRequest on one   *)
(* server and one in-memory store.  A call takes two steps, each with one  *)
(* access to the store: the router's (CreateSession or GetSession) and the *)
(* handler's (SetSessionInitialized, if any).  The store is a Go map        *)
(* without a lock: a write that overlaps another access is a data race,     *)
(* which the run time may let pass or end with a fatal error.               *)
(***************************************************************************)
Callers == {"c1", "c2"}
ConcRequests ==
    {RawRequest("aws", h, TRUE, McpRequest(IdNumber("1"), m, JNull)) :
        h \in {NoHeaders} \cup {[k \in {"Mcp-Session-Id"} |-> sid] : sid \in SessionIDs},
        m \in {"initialize", "notifications/initialized"}}

Running == \A c \in DOMAIN inflight : inflight[c].pc # "fatal"

\* The access to the map the next step of a call makes: "write", "read" or
\* "none".
NextAccess(call) ==
    CASE call.pc = "routing" ->
            IF TransportGetSessionID(EmptyContext, call.req).sid = ""
            THEN "write" ELSE "read"
      [] call.pc = "handling" ->
            IF /\ call.routed.mcpReq.Method = "notifications/initialized"
               /\ ~call.routed.ctx.session.Initialized
            THEN "write" ELSE "none"
      [] OTHER -> "none"

\* A caller enters ProcessRequest.
Arrive(c) ==
    /\ Running /\ c \notin DOMAIN inflight
    /\ \E req \in ConcRequests :
          inflight' = (c :> [pc |-> "routing", req |-> req]) @@ inflight
    /\ UNCHANGED <<Sessions, Tools, Methods, last>>

\* The call of c runs up to its handler.
RouteStep(c) ==
    /\ Running /\ c \in DOMAIN inflight /\ inflight[c].pc = "routing"
    /\ \E uuid \in UuidOutcomesFor(Sessions, inflight[c].req) :
          \E r \in {Route(Sessions, Tools, Methods, inflight[c].req, uuid)} :
              IF r.done
              THEN /\ r.result.created => Cardinality(DOMAIN Sessions) < MaxSessions
                   /\ Sessions' = r.result.Sessions
                   /\ Tools' = r.result.Tools
                   /\ Methods' = r.result.Methods
                   /\ inflight' = [inflight EXCEPT ![c] =
                         [pc |-> "done", req |-> inflight[c].req,
                          err |-> r.result.err, resp |-> r.result.resp,
                          ctx |-> r.result.ctx]]
              ELSE /\ r.created => Cardinality(DOMAIN Sessions) < MaxSessions
                   /\ Sessions' = r.Sessions
                   /\ Tools' = r.Tools
                   /\ Methods' = r.Methods
                   /\ inflight' = [inflight EXCEPT ![c] =
                         [pc |-> "handling", req |-> inflight[c].req,
                          routed |-> [ctx |-> r.ctx, mcpReq |-> r.mcpReq,
                                      created |-> r.created]]]
    /\ UNCHANGED last

\* The handler of the call of c runs and the response is delivered.
HandleStep(c) ==
    /\ Running /\ c \in DOMAIN inflight /\ inflight[c].pc = "handling"
    /\ \E r \in {Dispatch(Sessions, Tools, Methods, inflight[c].routed, <<>>)} :
          /\ Sessions' = r.Sessions
          /\ Tools' = r.Tools
          /\ Methods' = r.Methods
          /\ inflight' = [inflight EXCEPT ![c] =
                [pc |-> "done", req |-> inflight[c].req,
                 err |-> r.err, resp |-> r.resp, ctx |-> r.ctx]]
    /\ UNCHANGED last

\* ProcessRequest returns to c.
Return(c) ==
    /\ Running /\ c \in DOMAIN inflight /\ inflight[c].pc = "done"
    /\ inflight' = [d \in DOMAIN inflight \ {c} |-> inflight[d]]
    /\ UNCHANGED <<Sessions, Tools, Methods, last>>

\* Two calls are about to access the map, one of them to write: the run time
\* detects the race and ends the process (fatal error: concurrent map
\* writes); no call returns.
FatalRace ==
    /\ Running
    /\ \E c, d \in DOMAIN inflight :
          /\ c # d
          /\ NextAccess(inflight[c]) = "write"
          /\ NextAccess(inflight[d]) \in {"read", "write"}
    /\ inflight' = [c \in DOMAIN inflight |->
                       [pc |-> "fatal", req |-> inflight[c].req]]
    /\ UNCHANGED <<Sessions, Tools, Methods, last>>

NextConc ==
    \/ \E c \in Callers : Arrive(c)
    \/ \E c \in Callers : RouteStep(c)
    \/ \E c \in Callers : HandleStep(c)
    \/ \E c \in Callers : Return(c)
    \/ FatalRace

SpecConc == Init /\ [][NextConc]_vars

(***************************************************************************)
(* The method table: SpecMeth.  An application registers handlers of its   *)
(* own, under new names and under names that are taken, and requests of    *)
(* registered and of unknown methods are processed.                        *)
(***************************************************************************)
MethodRegistrations ==
    {[name |-> n, method |-> h] :
        n \in {"ping", "initialize", "tools/list"},
        h \in {"pingHandler", "otherHandler"}}
MethRequests ==
    {RawRequest("aws", h, TRUE, McpRequest(IdNumber("1"), m, JNull)) :
        h \in {NoHeaders}
              \cup {[k \in {"Mcp-Session-Id"} |-> sid] : sid \in SessionIDs \cup {"stale"}},
        m \in {"initialize", "notifications/initialized", "ping", "resources/list"}}

\* The application registers a handler.
RegisterCustomMethod ==
    \E reg \in MethodRegistrations :
        \E r \in {RegisterMethod(Methods, reg.name, reg.method)} :
            /\ Methods' = r.Methods
            /\ last' = [op |-> "RegisterMethod", reg |-> reg, table |-> Methods,
                        err |-> r.err]
            /\ UNCHANGED <<Sessions, Tools, inflight>>

\* A request is processed under the table as it is.
ServeMethod ==
    \E req \in MethRequests : \E uuid \in UuidOutcomesFor(Sessions, req) :
        \E r \in {ProcessRequest(Sessions, Tools, Methods, req,
                                  [uuid |-> uuid, out |-> <<>>])} :
            /\ r.created => Cardinality(DOMAIN Sessions) < MaxSessions
            /\ Sessions' = r.Sessions
            /\ Tools' = r.Tools
            /\ Methods' = r.Methods
            /\ last' = [op |-> "ProcessRequest", req |-> req, uuid |-> uuid,
                        before |-> Sessions, table |-> Methods, out |-> r.out,
                        err |-> r.err, resp |-> r.resp,
                        ctx |-> r.ctx, method |-> r.method,
                        created |-> r.created, listed |-> r.listed,
                        calls |-> r.calls]
            /\ UNCHANGED inflight

NextMeth == RegisterCustomMethod \/ ServeMethod

SpecMeth == Init /\ [][NextMeth]_vars

(***************************************************************************)
(* Properties.  A request l of the history is described by what the client *)
(* sent and what the store held before it.                                 *)
(***************************************************************************)
\* the session id the request carries ("" if none)
CarriedSid(l) == TransportGetSessionID(EmptyContext, l.req).sid
\* the session the request is processed under, and whether there is one
SessionOf(l) == IF CarriedSid(l) = "" THEN l.uuid.id ELSE CarriedSid(l)
Resolved(l) ==
    IF CarriedSid(l) = "" THEN l.uuid.err = NoErr
    ELSE CarriedSid(l) \in DOMAIN l.before
\* l is a request of method m processed under a session
\* the transport converts the raw request of l
Converted(l) ==
    l.op = "ProcessRequest" /\ TransportProcessRequest(EmptyContext, l.req).err = NoErr
IsReq(l, m) ==
    /\ Converted(l)
    /\ l.req.req.Method = m
    /\ Resolved(l)
StoredInit(S, sid) == sid \in DOMAIN S /\ S[sid].Initialized
InitializedBefore(l) == StoredInit(l.before, SessionOf(l))
\* the caller got a response envelope without an error object
Succeeded(l) == l.err = NoErr /\ l.resp.Error = NilMcpError
\* the caller got a response envelope whose error object is e
FailedWith(l, e) ==
    /\ l.err = NoErr
    /\ l.resp.Error = e /\ l.resp.Results = NilResult
    /\ "error" \in DOMAIN l.out.Body /\ l.out.Body["error"] = e
    /\ "result" \notin DOMAIN l.out.Body

\* C1: a tools/list or tools/call request processed while the stored
\* initialized flag of its session is false is answered with the "session
\* not initialized" error; the tool list is not built and no callable is
\* called.
C1_ToolsRejectedBeforeHandshake ==
    \A m \in {"tools/list", "tools/call"} :
        (IsReq(last, m) /\ ~InitializedBefore(last)) =>
            /\ FailedWith(last, ErrSessionNotInitialized)
            /\ ~last.listed
            /\ last.calls = <<>>

C1_Witness ==
    /\ IsReq(last, "tools/call") /\ ~InitializedBefore(last)
    /\ last.req.req.Params.kind = "object"
    /\ "arguments" \in DOMAIN last.req.req.Params.fields
    /\ last.req.req.Params.fields["name"].str \in DOMAIN Tools
    /\ last.resp.Error = ErrSessionNotInitialized

\* C2: when notifications/initialized is processed twice in a row on a
\* session, the second request fails with "session already initialized" and
\* leaves the store as it was; the first one succeeded and set the flag if
\* the session was not initialized when it arrived.
C2_SecondInitializedNotificationFails ==
    (/\ IsReq(last, "notifications/initialized")
     /\ IsReq(last.prev, "notifications/initialized")
     /\ SessionOf(last) = SessionOf(last.prev)) =>
        /\ FailedWith(last, ErrSessionAlreadyInitialized)
        /\ Sessions = last.before
        /\ ~InitializedBefore(last.prev) =>
              /\ Succeeded(last.prev)
              /\ last.before[SessionOf(last)] = McpSession(SessionOf(last), TRUE)

C2_Witness ==
    /\ IsReq(last, "notifications/initialized")
    /\ IsReq(last.prev, "notifications/initialized")
    /\ SessionOf(last) = SessionOf(last.prev)
    /\ ~InitializedBefore(last.prev) /\ Succeeded(last.prev)
    /\ last.resp.Error = ErrSessionAlreadyInitialized

\* C3 as claimed: the second of two initialize requests in a row on a session
\* fails with "session already initialized".
C3_SecondInitializeFails ==
    (/\ IsReq(last, "initialize")
     /\ IsReq(last.prev, "initialize")
     /\ SessionOf(last) = SessionOf(last.prev)) =>
        FailedWith(last, ErrSessionAlreadyInitialized)

\* C3 as amended: an initialize request fails with "session already
\* initialized" exactly when the stored flag of its session is set (by an
\* earlier notifications/initialized); otherwise it succeeds, the second time
\* as the first.
C3_InitializeFailsOnceInitialized ==
    IsReq(last, "initialize") =>
        IF InitializedBefore(last)
        THEN FailedWith(last, ErrSessionAlreadyInitialized)
        ELSE /\ Succeeded(last)
             /\ last.resp.Results # NilResult
             /\ "result" \in DOMAIN last.out.Body

C3_Witness ==
    /\ IsReq(last, "initialize") /\ IsReq(last.prev, "initialize")
    /\ SessionOf(last) = SessionOf(last.prev)
    /\ InitializedBefore(last)
    /\ last.resp.Error = ErrSessionAlreadyInitialized

\* C4: a stored initialized flag that is true stays true in every step, and
\* a step makes a flag true (of a session that was stored uninitialized or
\* not stored) only by a successful notifications/initialized on that session.
C4_InitializedIsMonotonic ==
    [][\A sid \in DOMAIN Sessions \cup DOMAIN Sessions' :
          /\ StoredInit(Sessions, sid) => StoredInit(Sessions', sid)
          /\ (~StoredInit(Sessions, sid) /\ StoredInit(Sessions', sid)) =>
                /\ IsReq(last', "notifications/initialized")
                /\ SessionOf(last') = sid
                /\ Succeeded(last')]_vars

C4_Witness ==
    /\ IsReq(last, "tools/list") /\ InitializedBefore(last)
    /\ StoredInit(Sessions, SessionOf(last))
    /\ \E sid \in DOMAIN Sessions : ~Sessions[sid].Initialized

\* C5: a request that carries the id of a session whose stored flag is set (a
\* notifications/initialized has succeeded on it) is processed with
\* initialized = true in its context and is not rejected with "session not
\* initialized": tools/list builds the list and tools/call calls the tool.
C5_InitializedSessionIsServed ==
    (/\ Converted(last)
     /\ StoredInit(last.before, CarriedSid(last))) =>
        /\ last.ctx.hasSession
        /\ last.ctx.session = McpSession(CarriedSid(last), TRUE)
        /\ last.resp.Error # ErrSessionNotInitialized
        /\ last.req.req.Method = "tools/list" => last.listed
        /\ (last.req.req.Method = "tools/call" /\ "simple_func" \in DOMAIN Tools)
              => Len(last.calls) = 1

C5_Witness ==
    /\ IsReq(last, "tools/call")
    /\ IsReq(last.prev, "notifications/initialized") /\ Succeeded(last.prev)
    /\ CarriedSid(last) = SessionOf(last.prev)
    /\ Len(last.calls) = 1 /\ Succeeded(last)

\* What a call returned, seen from outside the output loop.
ReturnedError(l) ==
    \E i \in DOMAIN l.returned :
        l.returned[i].kind = "interface" /\ ~l.returned[i].isNil
\* the text a scalar return value is expected to be shown as
ExpectedText(v) ==
    CASE v = GoInt("int", -7) -> "-7"
      [] v = GoInt("int", 12) -> "12"
      [] v = GoString("ok") -> "ok"
      [] v = GoBool(FALSE) -> "false"
      [] v = GoString("Session ID: test-session\nRequest ID: test-request\nSum: 3") ->
            "Session ID: test-session\nRequest ID: test-request\nSum: 3"
RECURSIVE ExpectedOutputs(_)
ExpectedOutputs(vs) ==
    IF vs = <<>> THEN <<>>
    ELSE IF Head(vs).kind = "interface"
         THEN ExpectedOutputs(Tail(vs))
         ELSE <<McpToolOutput(McpToolOutputTypeText, ExpectedText(Head(vs)))>>
              \o ExpectedOutputs(Tail(vs))
\* the callable of a CallTool step was called and returned
Called(l) == l.op = "CallTool" /\ l.err = NoErr /\ Len(l.calls) = 1

\* C6 as claimed: when the callable returns a non-nil error value, the output
\* list is exactly one output of type error carrying the error's message,
\* wherever the other return values stand.
C6_ErrorReplacesAllOutputs ==
    (Called(last) /\ ReturnedError(last)) =>
        \E i \in DOMAIN last.returned :
            /\ last.returned[i].kind = "interface" /\ ~last.returned[i].isNil
            /\ last.output =
                  <<McpToolOutput(McpToolOutputTypeError, last.returned[i].msg)>>

\* C7: when the callable signals no error, the output list is one text output
\* per scalar return value, in declared order, each the value's text; a nil
\* error value adds nothing.
C7_TextOutputPerScalar ==
    (Called(last) /\ ~ReturnedError(last)) =>
        last.output = ExpectedOutputs(last.returned)

C7_Witness ==
    /\ Called(last)
    /\ last.returned = <<GoInt("int", -7), GoNilError, GoString("ok")>>
    /\ last.output = <<McpToolOutput(McpToolOutputTypeText, "-7"),
                       McpToolOutput(McpToolOutputTypeText, "ok")>>

\* C8: RegisterTool with a name that is already registered returns an error
\* and leaves the registry, the existing entry included, as it was.
C8_DuplicateNameRejected ==
    (last.op = "RegisterTool" /\ last.reg.name \in DOMAIN last.before) =>
        /\ last.err # NoErr
        /\ Tools = last.before

C8_Witness ==
    /\ last.op = "RegisterTool" /\ last.reg.name \in DOMAIN last.before
    /\ last.reg.tool.kind = "func"
    /\ last.reg.tool.ins = <<"context.Context", "int">>
    /\ Len(last.reg.params) = 1
    /\ last.before[last.reg.name].Function.ins = <<"int">>
    /\ last.err = "tool " \o last.reg.name \o " already registered"

\* the number of parameter descriptors a callable needs
RequiredParams(tool) ==
    IF tool.ins # <<>> /\ tool.ins[1] \in {"context.Context", "*ctxImpl"}
    THEN Len(tool.ins) - 1
    ELSE Len(tool.ins)

\* C9: RegisterTool succeeds only if the callable's input arity is the number
\* of parameter descriptors plus one when its first input is of the context
\* type, and the number of descriptors otherwise; with any other arity it
\* fails and stores nothing.
C9_ArityMatchesDescriptors ==
    (last.op = "RegisterTool" /\ last.reg.tool.kind = "func") =>
        /\ last.err = NoErr => Len(last.reg.params) = RequiredParams(last.reg.tool)
        /\ Len(last.reg.params) # RequiredParams(last.reg.tool) =>
              last.err # NoErr /\ Tools = last.before

C9_Witness ==
    /\ last.op = "RegisterTool" /\ last.err = NoErr
    /\ last.reg.tool.kind = "func"
    /\ last.reg.tool.ins = <<"context.Context", "int">>
    /\ Len(last.reg.params) = 1
    /\ last.reg.name \in DOMAIN Tools \ DOMAIN last.before

\* C10: a callable with an input of the context type at an index above 0
\* fails to register, also when index 0 holds a context and when the number
\* of descriptors matches the arity; the registry is left as it was.
C10_ContextOnlyFirst ==
    (/\ last.op = "RegisterTool" /\ last.reg.tool.kind = "func"
     /\ \E i \in DOMAIN last.reg.tool.ins :
           i > 1 /\ last.reg.tool.ins[i] \in {"context.Context", "*ctxImpl"}) =>
        /\ last.err # NoErr
        /\ Tools = last.before

C10_Witness ==
    /\ last.op = "RegisterTool"
    /\ last.reg.tool.kind = "func"
    /\ last.reg.tool.ins = <<"context.Context", "context.Context">>
    /\ Len(last.reg.params) = 1
    /\ last.reg.name \notin DOMAIN last.before
    /\ last.err = "context.Context must be the first parameter"
    /\ Tools = last.before

\* C11 as claimed: RegisterTool with a value that is no function (a scalar,
\* a struct, nil) returns an error and leaves the registry as it was.
C11_NonFunctionRejected ==
    (last.op = "RegisterTool" /\ last.reg.tool.kind # "func") =>
        /\ last.err # NoErr /\ ~IsPanic(last.err)
        /\ Tools = last.before

\* the tool of the registry a descriptor of the list is about
ToolOf(l, d) == l.before[d.Name]
\* the parameter descriptors of a tool that do not stand for the context
NonContext(tool) ==
    SelectSeq(tool.Parameters, LAMBDA p : p.Type # McpToolParameterTypeContext)

\* C12: ListTools returns one descriptor per registered tool, under the
\* registered names, and no input schema has a property or a required entry
\* for the context parameter: the properties are of the other parameters
\* only and required has as many entries as the callable has inputs that are
\* not the context.
C12_OneDescriptorPerTool ==
    last.op = "ListTools" =>
        /\ Cardinality(last.tools) = Cardinality(DOMAIN last.before)
        /\ {d.Name : d \in last.tools} = DOMAIN last.before
        /\ last.before # NoTools => last.err = NoErr
        /\ \A d \in last.tools :
              LET schema == d.InputSchema
                  shown == NonContext(ToolOf(last, d))
              IN  /\ \A n \in DOMAIN schema.Properties :
                        /\ schema.Properties[n].Type # McpToolParameterTypeContext
                        /\ \E i \in DOMAIN shown : shown[i].Name = n
                  /\ Len(schema.Required) = RequiredParams(ToolOf(last, d).Function)
                  /\ \A i \in DOMAIN schema.Required :
                        schema.Required[i] = shown[i].Name

C12_Witness ==
    /\ last.op = "ListTools" /\ last.err = NoErr
    /\ Cardinality(last.tools) = 2
    /\ \E d \in last.tools :
          /\ ToolOf(last, d).Function.ins = <<"context.Context", "int">>
          /\ DOMAIN d.InputSchema.Properties = {"p0"}
          /\ d.InputSchema.Required = <<"p0">>

\* C13 as claimed: the input schema of every listed tool has as many
\* properties as parameter specs were given at registration (as the callable
\* has inputs that are not the context), and its required list contains the
\* name of every parameter that is not the context.
C13_OnePropertyPerParameter ==
    last.op = "ListTools" =>
        \A d \in last.tools :
            LET schema == d.InputSchema
                shown == NonContext(ToolOf(last, d))
            IN  /\ Cardinality(DOMAIN schema.Properties)
                      = RequiredParams(ToolOf(last, d).Function)
                /\ \A i \in DOMAIN shown :
                      \E j \in DOMAIN schema.Required :
                          schema.Required[j] = shown[i].Name

(***************************************************************************)
(* Properties of tools/call.  A request is described by its params and the *)
(* descriptors of the tool it names.                                       *)
(***************************************************************************)
\* a tools/call on an initialized session
OnInitialized(l) ==
    l.op = "MethodToolsCall" /\ l.ctx.hasSession /\ l.ctx.session.Initialized
\* its params are an object with a string name ...
NamesSomeTool(l) ==
    /\ l.params.kind = "object"
    /\ "name" \in DOMAIN l.params.fields
    /\ l.params.fields["name"].kind = "string"
\* ... that is registered, and arguments, if present, are an object
WellShaped(l) ==
    /\ OnInitialized(l) /\ NamesSomeTool(l)
    /\ l.params.fields["name"].str \in DOMAIN Tools
    /\ "arguments" \in DOMAIN l.params.fields =>
           l.params.fields["arguments"].kind = "object"
\* the declared parameters that are not the context, and the arguments given
Declared(l) == NonContext(Tools[l.params.fields["name"].str])
Given(l) ==
    IF "arguments" \in DOMAIN l.params.fields
    THEN l.params.fields["arguments"].fields
    ELSE NoFields
IsMissing(l, i) == Declared(l)[i].Name \notin DOMAIN Given(l)
IsFirstMissing(l, i) ==
    IsMissing(l, i) /\ \A j \in 1..(i - 1) : ~IsMissing(l, j)
\* a wire value is of the wire type of a parameter
Fits(p, val) ==
    CASE p.Kind \in IntKinds -> val.kind = "number" /\ val.isInt
      [] p.Kind \in FloatKinds -> val.kind = "number"
      [] p.Kind = "string" -> val.kind = "string"
      [] p.Kind = "bool" -> val.kind = "bool"
      [] OTHER -> FALSE
\* the envelope is an error response and no callable was called
Rejected(l) ==
    /\ l.err = NoErr
    /\ l.resp.Error # NilMcpError /\ l.resp.Results = NilResult
    /\ l.calls = <<>>

\* C14 as claimed: when the arguments lack the key of a declared parameter,
\* tools/call fails with an InvalidParams error whose data names the first
\* missing argument, and the callable is not called.
C14_MissingArgumentNamed ==
    WellShaped(last) =>
        \A i \in DOMAIN Declared(last) :
            IsFirstMissing(last, i) =>
                /\ Rejected(last)
                /\ last.resp.Error.Code = ErrInvalidParametersCode
                /\ <<"argument", Declared(last)[i].Name>> \in last.resp.Error.Data

\* C14 as amended: when the arguments lack the key of a declared parameter,
\* tools/call fails with an InvalidParams error and the callable is not
\* called; the error is "missing arguments" with the first missing argument
\* as data unless a parameter declared before it has an argument of the wrong
\* wire type: then it is "invalid argument type" for the first such parameter.
C14_MissingOrEarlierMistyped ==
    WellShaped(last) =>
        \A i \in DOMAIN Declared(last) :
            IsFirstMissing(last, i) =>
                /\ Rejected(last)
                /\ last.resp.Error.Code = ErrInvalidParametersCode
                /\ IF \A j \in 1..(i - 1) :
                          Fits(Declared(last)[j], Given(last)[Declared(last)[j].Name])
                   THEN last.resp.Error =
                            NewMcpError(ErrInvalidParametersCode, "missing arguments",
                                        {<<"argument", Declared(last)[i].Name>>})
                   ELSE \E j \in 1..(i - 1) :
                          /\ ~Fits(Declared(last)[j],
                                   Given(last)[Declared(last)[j].Name])
                          /\ \A k \in 1..(j - 1) :
                                Fits(Declared(last)[k],
                                     Given(last)[Declared(last)[k].Name])
                          /\ last.resp.Error =
                                NewMcpError(ErrInvalidParametersCode,
                                    "invalid argument type",
                                    {<<"argument", Declared(last)[j].Name>>,
                                     <<"type", Declared(last)[j].Type>>})

C14_Witness ==
    /\ WellShaped(last)
    /\ DOMAIN Given(last) = {"a"} /\ Given(last)["a"] = JNumber(TRUE, 2)
    /\ IsFirstMissing(last, 2)
    /\ last.resp.Error.Message = "missing arguments"
    /\ last.resp.Error.Data = {<<"argument", "b">>}
    /\ last.calls = <<>>

\* C15 as claimed: on an initialized session tools/call fails with an
\* InvalidParams (-32602) error when params is no object, when name is
\* missing, when name is no string, and when the arguments of a registered
\* tool are present but no object.
C15_ShapeErrorsAreInvalidParams ==
    (/\ OnInitialized(last)
     /\ \/ ~NamesSomeTool(last)
        \/ /\ last.params.fields["name"].str \in DOMAIN Tools
           /\ "arguments" \in DOMAIN last.params.fields
           /\ last.params.fields["arguments"].kind # "object") =>
        /\ Rejected(last)
        /\ last.resp.Error.Code = ErrInvalidParametersCode

\* the values of an integer kind
InRange(k, n) ==
    CASE k = "int8" -> n \in -128..127
      [] k = "uint8" -> n \in 0..255
      [] k = "int16" -> n \in -32768..32767
      [] k = "uint16" -> n \in 0..65535
      [] k \in {"uint", "uint32", "uint64"} -> n >= 0
      [] OTHER -> TRUE

\* C16 as claimed: when every argument is given and the number given for a
\* parameter of an integer kind is not integral or lies outside the range of
\* the kind, tools/call fails with the "invalid argument type" error and the
\* callable is not called.
C16_OutOfRangeRejected ==
    (/\ WellShaped(last)
     /\ \A i \in DOMAIN Declared(last) : ~IsMissing(last, i)
     /\ \E i \in DOMAIN Declared(last) :
           LET p == Declared(last)[i]
               val == Given(last)[p.Name]
           IN  /\ p.Kind \in IntKinds /\ val.kind = "number"
               /\ ~val.isInt \/ ~InRange(p.Kind, val.int)) =>
        /\ Rejected(last)
        /\ last.resp.Error.Message = "invalid argument type"

\* the messages of the errors a callable returned
ErrorMessages(returned) ==
    {returned[i].msg : i \in {j \in DOMAIN returned :
        returned[j].kind = "interface" /\ ~returned[j].isNil}}

\* C17: when the callable of a tools/call returns a non-nil error, the answer
\* is a success envelope (a result, no error object) whose result has isError
\* = true and as content one text entry with the error's message; when it
\* returns none, isError = false and the content is the output list of the
\* engine: the scalar return values as text, in order.
C17_CallableFailureIsResult ==
    (last.op = "MethodToolsCall" /\ Len(last.calls) = 1 /\ last.err = NoErr) =>
        LET returned == last.calls[1].returned
            body == MarshalResponse(last.resp)
        IN  /\ last.resp.Error = NilMcpError
            /\ "result" \in DOMAIN body /\ "error" \notin DOMAIN body
            /\ IF ErrorMessages(returned) # {}
               THEN /\ last.resp.Results.isError = TRUE
                    /\ Len(last.resp.Results.content) = 1
                    /\ last.resp.Results.content[1].Type = McpToolOutputTypeText
                    /\ last.resp.Results.content[1].Text \in ErrorMessages(returned)
               ELSE last.resp.Results =
                        [content |-> ExpectedOutputs(returned), isError |-> FALSE]

C17_Witness ==
    /\ last.op = "MethodToolsCall" /\ Len(last.calls) = 1 /\ last.err = NoErr
    /\ last.calls[1].returned = <<GoInt("int", 12), GoError("boom"), GoString("ok")>>
    /\ last.resp.Error = NilMcpError
    /\ last.resp.Results =
          [content |-> <<McpToolOutput(McpToolOutputTypeText, "boom")>>,
           isError |-> TRUE]

\* C18 as claimed: every response envelope ProcessRequest produces has
\* exactly one of result and error, as an envelope and as the body delivered.
C18_ExactlyOneOfResultAndError ==
    last.op = "ProcessRequest" =>
        /\ (last.resp.Results # NilResult) # (last.resp.Error # NilMcpError)
        /\ last.err = NoErr =>
              ("result" \in DOMAIN last.out.Body) # ("error" \in DOMAIN last.out.Body)

\* C19 as claimed: the response to a request the transport converts carries
\* the id literal of the request.
C19_IdRoundTrips ==
    (Converted(last) /\ last.err = NoErr) =>
        last.out.Body["id"] = last.req.req.ID

\* C20 as claimed: the caller of ProcessRequest always receives a response;
\* when the transport cannot convert the request, or the session cannot be
\* resolved or created, it is an error response (with id -1 when there is no
\* request id).
C20_AlwaysAResponse ==
    last.op = "ProcessRequest" =>
        /\ last.err = NoErr /\ last.out # NoRawResponse
        /\ (~Converted(last) \/ ~Resolved(last)) =>
              /\ "error" \in DOMAIN last.out.Body
              /\ ~Converted(last) => last.out.Body["id"] = IdNumber("-1")

(***************************************************************************)
(* Properties of the errors of a request and of its effects on the store.  *)
(***************************************************************************)
\* the handler of the request ran and returned an error, which the router
\* answered with an internal error
HandlerFailed(l) ==
    /\ Converted(l) /\ Resolved(l)
    /\ l.method \in DOMAIN Methods
    /\ l.resp.Error # NilMcpError
    /\ l.resp.Error.Code = ErrInternalErrorCode

ReportedSid(l) == TransportGetSessionID(EmptyContext, l.req)

TakesContext(tool) ==
    tool.Function.ins # <<>> /\ tool.Function.ins[1] = "context.Context"

\* C23: CallTool passes to a callable registered with a leading context
\* parameter the caller's context (with its session and request id) as
\* argument 0 and after it the positional arguments in descriptor order; a
\* callable without a context parameter receives the positional arguments
\* in order and nothing else.
C23_ContextThenPositional ==
    (last.op = "CallTool" /\ Len(last.calls) = 1) =>
        LET tool == Tools[last.name]
            args == last.calls[1].args
            n == Len(tool.Function.ins)
        IN  /\ Len(args) = n
            /\ IF TakesContext(tool)
               THEN /\ args[1] = [kind |-> "interface", ctx |-> CallContext]
                    /\ args[1].ctx.session = McpSession("test-session", TRUE)
                    /\ args[1].ctx.requestID = "test-request"
                    /\ \A i \in 2..n : args[i] = last.params[i - 1]
               ELSE \A i \in 1..n : args[i] = last.params[i]

C23_Witness ==
    /\ last.op = "CallTool" /\ Len(last.calls) = 1 /\ last.err = NoErr
    /\ Tools[last.name].Function = contextFunc
    /\ last.params = <<GoInt("int", 1), GoInt("int", 2)>>
    /\ last.output =
          <<McpToolOutput(McpToolOutputTypeText,
                "Session ID: test-session\nRequest ID: test-request\nSum: 3")>>

C23_WitnessNoContext ==
    /\ last.op = "CallTool" /\ Len(last.calls) = 1 /\ last.err = NoErr
    /\ ~TakesContext(Tools[last.name])
    /\ last.params = <<GoInt("int", 1), GoString("x")>>
    /\ last.calls[1].args = <<GoInt("int", 1), GoString("x")>>

\* C24 as claimed: a callable that takes an image and returns an image and an
\* error registers under a free name with one parameter spec, so that it can
\* be called for one output of type image.
C24_ImageCallableRegisters ==
    (/\ last.op = "RegisterTool"
     /\ last.reg.tool = imageFunc /\ last.reg.params = ImgParams
     /\ last.reg.name \notin DOMAIN last.before) =>
        /\ last.err = NoErr
        /\ last.reg.name \in DOMAIN Tools
        /\ Tools[last.reg.name].Function = imageFunc

\* the error of the first check of the shape of params that fails, NilMcpError
\* if the shape is right: params is an object, name is present and a string,
\* arguments (when present) is an object
ShapeError(l) ==
    IF l.params.kind # "object"
    THEN ErrInvalidMcpRequestParameters
    ELSE IF "name" \notin DOMAIN l.params.fields
    THEN NewMcpError(ErrInvalidParametersCode, "missing tool name", NoData)
    ELSE IF l.params.fields["name"].kind # "string"
    THEN NewMcpError(ErrInvalidParametersCode, "invalid tool name", NoData)
    ELSE IF /\ "arguments" \in DOMAIN l.params.fields
            /\ l.params.fields["arguments"].kind # "object"
    THEN NewMcpError(ErrInvalidRequestCode, "arguments is not object", NoData)
    ELSE NilMcpError
\* the declared parameter i has no argument or one of the wrong wire type
FailsAt(l, i) ==
    IsMissing(l, i) \/ ~Fits(Declared(l)[i], Given(l)[Declared(l)[i].Name])
\* the error expected for the declared parameter i
ParameterError(l, i) ==
    IF IsMissing(l, i)
    THEN NewMcpError(ErrInvalidParametersCode, "missing arguments",
                     {<<"argument", Declared(l)[i].Name>>})
    ELSE NewMcpError(ErrInvalidParametersCode, "invalid argument type",
                     {<<"argument", Declared(l)[i].Name>>,
                      <<"type", Declared(l)[i].Type>>})

\* C25 as claimed: tools/call checks in this order, and the first check that
\* fails gives the error: the session is initialized; the shape of params;
\* the tool is registered; every declared parameter, in declaration order,
\* is present and of the right wire type.
C25_ValidationOrder ==
    last.op = "MethodToolsCall" =>
        IF ~last.ctx.session.Initialized
        THEN Rejected(last) /\ last.resp.Error = ErrSessionNotInitialized
        ELSE IF ShapeError(last) # NilMcpError
        THEN Rejected(last) /\ last.resp.Error = ShapeError(last)
        ELSE IF last.params.fields["name"].str \notin DOMAIN Tools
        THEN /\ Rejected(last)
             /\ last.resp.Error =
                   NewMcpError(ErrMethodNotFoundCode, "tool not found", NoData)
        ELSE \A i \in DOMAIN Declared(last) :
                (FailsAt(last, i) /\ \A j \in 1..(i - 1) : ~FailsAt(last, j)) =>
                    Rejected(last) /\ last.resp.Error = ParameterError(last, i)

\* the request was answered with a protocol error: an invalid request, an
\* unknown method or tool, invalid params or arguments, a violation of the
\* state of the session
FailedValidation(l) ==
    /\ l.op = "ProcessRequest"
    /\ l.resp.Error # NilMcpError
    /\ l.resp.Error.Code \in {ErrInvalidRequestCode, ErrMethodNotFoundCode,
                              ErrInvalidParametersCode}

\* C26 as claimed: processing a request that fails protocol validation makes
\* no write to the session store: no session is created and no stored
\* session is changed.
C26_InvalidRequestWritesNothing ==
    FailedValidation(last) =>
        /\ ~last.created
        /\ Sessions = last.before

\* the call of c is a notifications/initialized that has been answered
AnsweredInitialized(c) ==
    /\ c \in DOMAIN inflight /\ inflight[c].pc = "done"
    /\ inflight[c].req.req.Method = "notifications/initialized"
    /\ inflight[c].ctx.hasSession
\* the call of c got a response envelope without an error object
CallSucceeded(c) ==
    inflight[c].err = NoErr /\ inflight[c].resp.Error = NilMcpError

\* C27 as claimed: of two overlapping notifications/initialized requests for
\* one session that was not initialized, at most one is answered with a
\* success result, and the other with "session already initialized".
C27_OneInitializedNotificationWins ==
    \A c, d \in Callers :
        (/\ c # d
         /\ AnsweredInitialized(c) /\ AnsweredInitialized(d)
         /\ inflight[c].ctx.session.SessionID = inflight[d].ctx.session.SessionID
         /\ CallSucceeded(c)) =>
            /\ ~CallSucceeded(d)
            /\ inflight[d].err = NoErr
            /\ inflight[d].resp.Error = ErrSessionAlreadyInitialized

\* the session the router put in the context of the request: the one it
\* created, or the stored one of the id the request carries
RoutedSession(l) ==
    IF l.created THEN McpSession(l.uuid.id, FALSE) ELSE l.before[CarriedSid(l)]
\* the store as the router left it
RoutedStore(l) ==
    IF l.created THEN (l.uuid.id :> RoutedSession(l)) @@ l.before ELSE l.before

\* C28: an initialize request, answered with success or with an error,
\* leaves the stored session and the rest of the store as the router left
\* them, the initialized flag included; and whatever the method, the session
\* in the context of the call is after the handler what the router put there.
C28_InitializeLeavesSession ==
    /\ IsReq(last, "initialize") =>
          /\ Sessions = RoutedStore(last)
          /\ Sessions[SessionOf(last)].Initialized = InitializedBefore(last)
    /\ (Converted(last) /\ Resolved(last)) =>
          /\ last.ctx.hasSession
          /\ last.ctx.session = RoutedSession(last)

C28_Witness ==
    /\ IsReq(last, "initialize") /\ ~last.created
    /\ Succeeded(last) /\ last.resp.Results # NilResult
    /\ Sessions = last.before
    /\ ~Sessions[CarriedSid(last)].Initialized
    /\ \E sid \in DOMAIN Sessions : Sessions[sid].Initialized

\* C29: RegisterTool is all or nothing.  A call that returns an error, of
\* whatever kind, leaves the registry as it was; the registry changes only by
\* a call that returns no error, which adds the tool under its name and
\* leaves every other entry as it was.
C29_RegisterToolAllOrNothing ==
    [][/\ (last'.op = "RegisterTool" /\ last'.err # NoErr) => Tools' = Tools
       /\ Tools' # Tools =>
             /\ last'.op = "RegisterTool" /\ last'.err = NoErr
             /\ last'.reg.name \notin DOMAIN Tools
             /\ DOMAIN Tools' = DOMAIN Tools \cup {last'.reg.name}
             /\ \A n \in DOMAIN Tools : Tools'[n] = Tools[n]
             /\ Tools'[last'.reg.name].Function = last'.reg.tool]_vars

C29_Witness ==
    /\ last.op = "RegisterTool" /\ last.reg.tool = anyOutFunc
    /\ last.err = "unsupported function return type: interface"
    /\ last.reg.name \notin DOMAIN last.before
    /\ last.before # NoTools /\ Tools = last.before

\* the semantic type of a Go type of a supported scalar kind, "" for others
SemanticType(t) ==
    CASE t \in {"int", "int8", "int16", "int32", "int64", "uint", "uint8",
                "uint16", "uint32", "uint64", "float32", "float64"} -> "number"
      [] t = "string" -> "string"
      [] t = "bool" -> "boolean"
      [] OTHER -> ""
\* an input the claim allows at index i (1-based), a return value it allows
AllowedInput(f, i) ==
    SemanticType(f.ins[i]) # "" \/ (i = 1 /\ f.ins[i] = "context.Context")
AllowedOutput(f, i) == SemanticType(f.outs[i]) # "" \/ f.outs[i] = "error"

ContextSlots(t) ==
    {i \in DOMAIN t.Parameters : t.Parameters[i].Type = McpToolParameterTypeContext}

\* C31: in every state of the registry each stored tool has at most one
\* context descriptor, and it is the first one; it has one parameter
\* descriptor per input of its callable and one output descriptor per return
\* value; a registration that succeeds stores as many descriptors that are
\* no context as it was given parameter specs.
C31_DescriptorCounts ==
    /\ \A n \in DOMAIN Tools :
          /\ Cardinality(ContextSlots(Tools[n])) <= 1
          /\ ContextSlots(Tools[n]) \subseteq {1}
          /\ Len(Tools[n].Parameters) = Len(Tools[n].Function.ins)
          /\ Len(Tools[n].Output) = Len(Tools[n].Function.outs)
    /\ (last.op = "RegisterTool" /\ last.err = NoErr) =>
          Cardinality(DOMAIN Tools[last.reg.name].Parameters
                         \ ContextSlots(Tools[last.reg.name]))
              = Len(last.reg.params)

C31_Witness ==
    /\ last.op = "RegisterTool" /\ last.err = NoErr
    /\ last.reg.tool.ins = <<"context.Context", "int">>
    /\ ContextSlots(Tools[last.reg.name]) = {1}
    /\ Len(Tools[last.reg.name].Parameters) = 2
    /\ Len(last.reg.params) = 1
    /\ "scalar_type_func" \in DOMAIN Tools
    /\ ContextSlots(Tools["scalar_type_func"]) = {}

\* the declared types of the inputs of a stored tool that are positional
PositionalTypes(tool) ==
    IF TakesContext(tool) THEN Tail(tool.Function.ins) ELSE tool.Function.ins
\* the positional arguments (1-based) whose kind is not the declared one
Mistyped(tool, params) ==
    {j \in DOMAIN params \cap DOMAIN PositionalTypes(tool) :
        params[j].kind # PositionalTypes(tool)[j]}

\* C32: CallTool returns an error and calls no callable when the name is not
\* registered, and when a positional argument is not of the kind its
\* parameter descriptor records; the error of the second case names the
\* tool, the index of the parameter among the descriptors, the kind expected
\* and the kind given.
C32_UnknownOrMistypedNotCalled ==
    last.op = "CallTool" =>
        IF last.name \notin DOMAIN Tools
        THEN /\ last.err = "tool " \o last.name \o " not found"
             /\ last.calls = <<>> /\ last.output = <<>>
        ELSE LET tool == Tools[last.name]
                 bad == Mistyped(tool, last.params)
             IN  bad # {} =>
                    LET j == CHOOSE k \in bad : \A m \in bad : k <= m
                        index == IF TakesContext(tool) THEN j ELSE j - 1
                    IN  /\ last.err =
                              "tool " \o last.name \o " parameter "
                                  \o ToString(index)
                                  \o " has wrong type: expected "
                                  \o PositionalTypes(tool)[j] \o ", got "
                                  \o last.params[j].kind
                        /\ last.calls = <<>> /\ last.output = <<>>

C32_Witness ==
    /\ last.op = "CallTool" /\ last.name \in DOMAIN Tools
    /\ Tools[last.name].Function = contextFunc
    /\ last.params = <<GoInt("int", 1), GoString("x")>>
    /\ last.err = "tool tool parameter 2 has wrong type: expected int, got string"
    /\ last.calls = <<>>

C32_WitnessNotFound ==
    /\ last.op = "CallTool" /\ last.name = "no_such_tool"
    /\ Tools # NoTools
    /\ last.err = "tool no_such_tool not found" /\ last.calls = <<>>

\* C33 as claimed: CallTool with fewer positional arguments than the tool has
\* parameters that are no context returns an error, does not panic and does
\* not call the callable; a callable called for a tools/call request is
\* handed as many positional arguments as the tool has such parameters.
C33_TooFewArgumentsIsAnError ==
    /\ (/\ last.op = "CallTool" /\ last.name \in DOMAIN Tools
        /\ Len(last.params) < Len(PositionalTypes(Tools[last.name]))) =>
          /\ last.err # NoErr /\ ~IsPanic(last.err)
          /\ last.calls = <<>>
    /\ (last.op = "MethodToolsCall" /\ Len(last.calls) = 1) =>
          LET tool == Tools[last.calls[1].tool]
          IN  Len(last.calls[1].args) - (IF TakesContext(tool) THEN 1 ELSE 0)
                  = Len(PositionalTypes(tool))

\* every check of a tools/call passes: the session is initialized, the params
\* name a registered tool, the arguments are an object, and every declared
\* parameter has an argument of its wire type
AllChecksPass(l) ==
    /\ WellShaped(l)
    /\ \A i \in DOMAIN Declared(l) :
          /\ ~IsMissing(l, i)
          /\ Fits(Declared(l)[i], Given(l)[Declared(l)[i].Name])

\* C34: one tools/call calls the callable of the tool it names at most once
\* and no callable of another tool: exactly once when every check passes,
\* not at all when one fails (the session is not initialized, the params are
\* invalid, the tool is unknown, an argument is missing or mistyped).
C34_CallableCalledOnceOrNever ==
    last.op = "MethodToolsCall" =>
        IF AllChecksPass(last)
        THEN /\ Len(last.calls) = 1
             /\ last.calls[1].tool = last.params.fields["name"].str
        ELSE last.calls = <<>>

C34_Witness ==
    /\ last.op = "MethodToolsCall" /\ AllChecksPass(last)
    /\ DOMAIN Tools = {"narrow_func", "error_between_func"}
    /\ Len(last.calls) = 1 /\ last.calls[1].tool = "narrow_func"
    /\ last.calls[1].args[2] = GoInt("int8", 2)

C34_WitnessNotCalled ==
    /\ last.op = "MethodToolsCall" /\ ~last.ctx.session.Initialized
    /\ NamesSomeTool(last)
    /\ last.params.fields["name"].str = "narrow_func"
    /\ "narrow_func" \in DOMAIN Tools
    /\ "arguments" \in DOMAIN last.params.fields
    /\ last.params.fields["arguments"] = AB(JNumber(TRUE, 2), JNumber(TRUE, 2))
    /\ last.calls = <<>>

\* C35: processing a request changes neither the tool registry nor the method
\* table: whatever the request lists or calls, the registered tools, their
\* names, descriptions, callables and descriptors, and the handlers of the
\* methods stay what registration left them; of the state of the server
\* only the session store may differ afterwards.
C35_RequestsLeaveRegistry ==
    [][last'.op = "ProcessRequest" =>
          /\ Tools' = Tools
          /\ Methods' = Methods
          /\ inflight' = inflight]_vars

C35_Witness ==
    /\ last.op = "ProcessRequest" /\ last.method = "tools/list"
    /\ last.listed /\ last.err = NoErr
    /\ DOMAIN Tools = {"simple_func", "error_func"}
    /\ Tools["simple_func"].Function = simpleFunc
    /\ Tools["simple_func"].Parameters[1].Type = McpToolParameterTypeContext
    /\ Methods = DefaultMethods
    /\ \E sid \in DOMAIN Sessions : Sessions[sid].Initialized

\* C36: while no tool is registered ListTools fails with "no registered
\* tools" and returns no list, so that a tools/list request on an initialized
\* session is answered with an error response of code InternalError
\* (-32603) and with no result.
C36_EmptyRegistryIsAnError ==
    (IsReq(last, "tools/list") /\ InitializedBefore(last) /\ Tools = NoTools) =>
        /\ last.listed
        /\ FailedWith(last, NewErrInternalError("no registered tools", NoData))
        /\ last.out.Body["error"].Code = -32603
        /\ last.resp.Error.Code = ErrInternalErrorCode

C36_Witness ==
    /\ IsReq(last, "tools/list") /\ InitializedBefore(last) /\ Tools = NoTools
    /\ last.listed
    /\ last.out.Body["error"].Message = "no registered tools"
    /\ "result" \notin DOMAIN last.out.Body

\* the request carries a session id that the store does not hold
UnknownSession(l) ==
    Converted(l) /\ CarriedSid(l) # "" /\ CarriedSid(l) \notin DOMAIN l.before

\* C37 as claimed: a request that carries a session id the store does not
\* hold is answered with an error response; no handler is run for it, no
\* session is created and no stored session is changed.
C37_UnknownSessionAnsweredWithError ==
    UnknownSession(last) =>
        /\ last.err = NoErr
        /\ last.resp.Error # NilMcpError
        /\ "error" \in DOMAIN last.out.Body
        /\ last.method = "" /\ ~last.listed /\ last.calls = <<>>
        /\ ~last.created
        /\ Sessions = last.before

\* C38: sessions are isolated.  A request leaves every stored session other
\* than the one it is processed under as it was, so that after the handshake
\* of one session a tools/list or tools/call under another session whose
\* flag is not set is still rejected; every session is stored under its own
\* id, and a session that is created gets an id no stored session has (the
\* ids are random UUIDs, taken to be fresh) and replaces none.
C38_SessionsAreIsolated ==
    /\ \A sid \in DOMAIN Sessions : Sessions[sid].SessionID = sid
    /\ last.op = "ProcessRequest" =>
          /\ \A sid \in DOMAIN last.before :
                sid # SessionOf(last) => Sessions[sid] = last.before[sid]
          /\ (last.created /\ last.uuid.err = NoErr) =>
                /\ last.uuid.id \notin DOMAIN last.before
                /\ DOMAIN Sessions = DOMAIN last.before \cup {last.uuid.id}
          /\ \A m \in {"tools/list", "tools/call"} :
                (/\ IsReq(last, m)
                 /\ IsReq(last.prev, "notifications/initialized")
                 /\ Succeeded(last.prev)
                 /\ SessionOf(last) # SessionOf(last.prev)
                 /\ ~StoredInit(last.prev.before, SessionOf(last))) =>
                    /\ FailedWith(last, ErrSessionNotInitialized)
                    /\ ~last.listed /\ last.calls = <<>>

C38_Witness ==
    /\ IsReq(last, "tools/call")
    /\ IsReq(last.prev, "notifications/initialized") /\ Succeeded(last.prev)
    /\ SessionOf(last.prev) = "1" /\ SessionOf(last) = "2"
    /\ Sessions["1"].Initialized /\ ~Sessions["2"].Initialized
    /\ Tools # NoTools
    /\ FailedWith(last, ErrSessionNotInitialized)
    /\ last.calls = <<>>

\* C39: a request processed under a session whose method name is not in the
\* method table (no method NewMcpServer registers and none registered through
\* RegisterMethod) is answered with the "unknown method" error of code
\* MethodNotFound (-32601) whose data holds the method name, and no handler
\* is run; a method that is in the table is handled.  RegisterMethod under a
\* name that is in the table fails and leaves the handler of the name in
\* place.
C39_UnknownMethodAndNoReplacement ==
    /\ \A m \in {"initialize", "notifications/initialized", "ping",
                 "resources/list"} :
          IsReq(last, m) =>
              IF m \in DOMAIN last.table
              THEN last.method = m
              ELSE /\ FailedWith(last,
                          NewMcpError(-32601, "unknown method", {<<"method", m>>}))
                   /\ last.resp.Error.Code = ErrMethodNotFoundCode
                   /\ last.method = "" /\ ~last.listed /\ last.calls = <<>>
                   /\ Methods = last.table
    /\ last.op = "RegisterMethod" =>
          IF last.reg.name \in DOMAIN last.table
          THEN /\ last.err = "method " \o last.reg.name \o " already registered"
               /\ Methods = last.table
          ELSE /\ last.err = NoErr
               /\ DOMAIN Methods = DOMAIN last.table \cup {last.reg.name}
               /\ Methods[last.reg.name] = last.reg.method
               /\ \A n \in DOMAIN last.table : Methods[n] = last.table[n]
    /\ \A n \in DOMAIN DefaultMethods :
          n \in DOMAIN Methods /\ Methods[n] = DefaultMethods[n]

C39_Witness ==
    /\ IsReq(last, "resources/list")
    /\ "ping" \in DOMAIN Methods
    /\ last.out.Body["error"].Message = "unknown method"
    /\ last.out.Body["error"].Data = {<<"method", "resources/list">>}
    /\ last.method = ""

C39_WitnessNotReplaced ==
    /\ last.op = "RegisterMethod" /\ last.reg = [name |-> "ping", method |-> "otherHandler"]
    /\ last.err = "method ping already registered"
    /\ Methods["ping"] = "pingHandler"

C39_WitnessRegisteredIsHandled ==
    /\ IsReq(last, "ping") /\ last.method = "ping"
    /\ Succeeded(last) /\ last.resp.Results = [pong |-> TRUE]

====
